---- MODULE Spec2Model ----
(***************************************************************************)
(* The task store of the hierarchical todo list: the `items` and `lists`   *)
(* collections of one user and the service operations that mutate them     *)
(* (src/src/services/items.ts, src/src/services/lists.ts), called          *)
(* sequentially.  Each action is one service call, from its first read to  *)
(* the commit of its write batch.                                          *)
(***************************************************************************)
EXTENDS Integers, Sequences, FiniteSets, TLC

\* Bounds of the model.
MaxItems == 3
MaxLists == 2

\* The maxDepth settings of the model's runs (the App's input allows 1..12 and
\* starts at MAX_DEPTH = 4); a run keeps the setting it starts with.
MaxDepthSetting == 3
DepthSettings == 2..MaxDepthSetting
\* No path grows beyond this length: a call that would write a longer one is
\* not explored.
MaxPathLen == 3
\* The runs that follow the lists keep at most this many tasks in the store
\* and no list order above MaxListOrder.
MaxListSpecItems == 2
MaxListOrder == 2
\* The runs with several users have MaxUsers users and keep at most
\* MaxUserSpecDocs documents (tasks and lists) in the whole database.
MaxUsers == 2
MaxUserSpecDocs == 2
\* The runs of the hooks keep at most MaxHookSpecDocs documents in the whole
\* database.
MaxHookSpecDocs == 1
\* The runs that follow the commits of a call keep at most MaxCommitSpecDocs
\* documents (tasks and lists) in the store.
MaxCommitSpecDocs == 2
\* The runs of the App keep at most MaxAppSpecLists lists and MaxAppSpecItems
\* tasks in the store, generate at most MaxClientIds clientIds and have at
\* most MaxAppCalls calls in flight.
MaxAppSpecLists == 1
MaxAppSpecItems == 2
MaxClientIds == 3
MaxAppCalls == 2

\* parentId: string | null; null is modelled by 0, which is no document id.
Null == 0
\* insertIndex?: number; an omitted insertIndex is modelled by a value that is
\* no index the callers pass.
Undefined == -9

ItemIds == 1..MaxItems
ListIds == 1..MaxLists
\* The insert indexes callers are modelled to pass: below, inside and above
\* the range of any sibling group, or none.
InsertIndexes == (-1..MaxItems) \cup {Undefined}

VARIABLES
  items,     \* the items collection: document id -> document (or no document)
  lists,     \* the lists collection: document id -> document (or no document)
  maxDepth,  \* the maxDepth value the hook passes to the service calls
  hooks,     \* the state of useLists and useItems and their subscriptions
  app,       \* the optimistic state of the App component
  calls      \* the service calls in flight

\* The client: the hooks, the App component and the calls it has in flight.
\* The specifications of the store alone leave it as it starts.
client == <<hooks, app, calls>>

vars == <<items, lists, maxDepth, hooks, app, calls>>

\* The client before the App is mounted.
NoHooks == [mounted |-> FALSE]
NoApp == [mounted |-> FALSE]
NoCalls == <<>>

\* A document id that holds no document.
NoItem ==
  [exists |-> FALSE, completed |-> FALSE, collapsed |-> FALSE, listId |-> 0,
   parentId |-> Null, path |-> <<>>, order |-> 0, clientId |-> Null]
NoList == [exists |-> FALSE, order |-> 0, clientId |-> Null]

\* type Item, as addDoc writes it without a clientId: completed and collapsed
\* start false (id is the key of the collection; title is not modelled; an
\* omitted clientId is modelled by Null).
Item(listId, parentId, path, order) ==
  [exists |-> TRUE, completed |-> FALSE, collapsed |-> FALSE, listId |-> listId,
   parentId |-> parentId, path |-> path, order |-> order, clientId |-> Null]

\* type List, as addDoc writes it without a clientId: order (id is the key of
\* the collection; title is not modelled).
List(order) == [exists |-> TRUE, order |-> order, clientId |-> Null]

Docs(st) == {d \in ItemIds : st[d].exists}
ListDocs(ls) == {l \in ListIds : ls[l].exists}

Min(a, b) == IF a < b THEN a ELSE b
Max(a, b) == IF a > b THEN a ELSE b

\* Array.prototype.includes / the array-contains filter.
Contains(path, x) == \E i \in 1..Len(path) : path[i] = x

\* Array.prototype.indexOf: the 0-based index of the first occurrence, or -1.
IndexOf(path, x) ==
  IF Contains(path, x)
  THEN (CHOOSE i \in 1..Len(path) :
          path[i] = x /\ \A j \in 1..(i - 1) : path[j] # x) - 1
  ELSE -1

\* Array.prototype.slice(from) and slice(0, to), 0-based.
SliceFrom(s, from) == SubSeq(s, from + 1, Len(s))
SliceTo(s, to) == SubSeq(s, 1, Min(to, Len(s)))

\* where('listId', '==', l), where('parentId', '==', p)
SiblingDocs(st, l, p) ==
  {d \in Docs(st) : st[d].listId = l /\ st[d].parentId = p}

\* where('path', 'array-contains', r)
DescDocs(st, r) == {d \in Docs(st) : Contains(st[d].path, r)}

\* where('listId', '==', l)
ListItemDocs(st, l) == {d \in Docs(st) : st[d].listId = l}

\* docs.sort((a, b) => a.order - b.order): a stable sort of a query result,
\* which the store returns in document id order.
SortByOrder(st, S) ==
  LET before(e, d) ==
        \/ st[e].order < st[d].order
        \/ st[e].order = st[d].order /\ e < d
      rank(d) == Cardinality({e \in S : before(e, d)})
  IN [i \in 1..Cardinality(S) |-> CHOOSE d \in S : rank(d) = i - 1]

\* The 0-based position of x in a sequence without repetition.
PosIn(s, x) == (CHOOSE i \in 1..Len(s) : s[i] = x) - 1
InSeq(s, x) == \E i \in 1..Len(s) : s[i] = x

SetMax(S) == CHOOSE m \in S : \A x \in S : x <= m

\* computeSubtreeHeight(uid, rootId, listId)
computeSubtreeHeight(st, rootId, listId) ==
  LET descSnap == {d \in DescDocs(st, rootId) : st[d].listId = listId}
      suffixLen(d) ==
        LET idx == IndexOf(st[d].path, rootId)
        IN IF idx >= 0 THEN Len(st[d].path) - (idx + 1) ELSE 0
  IN IF descSnap = {} THEN 1
     ELSE 1 + SetMax({0} \cup {suffixLen(d) : d \in descSnap})

----
\* A faulty createRootItem whose sibling query lacks the parentId filter.
createRootItemDocAllOfList(st, listId) ==
  Item(listId, Null, <<>>, Cardinality(ListItemDocs(st, listId)))

\* createRootItem(uid, listId, title): the document it adds.
createRootItemDoc(st, listId) ==
  Item(listId, Null, <<>>, Cardinality(SiblingDocs(st, listId, Null)))

\* A faulty depth guard that compares the parent's depth, not the child's.
createChildItemAcceptedParentDepth(st, parentId, md) ==
  /\ st[parentId].exists
  /\ ~ (Len(st[parentId].path) + 1 > md)

\* createChildItem: whether the call passes its guards (parent exists, depth).
createChildItemAccepted(st, parentId, md) ==
  /\ st[parentId].exists
  /\ ~ (Len(st[parentId].path) + 2 > md)

\* createChildItem: the document it adds.
createChildItemDoc(st, parentId) ==
  LET parent == st[parentId]
  IN Item(parent.listId, parentId, Append(parent.path, parentId),
          Cardinality(SiblingDocs(st, parent.listId, parentId)))


\* deleteItemSubtree: the remaining siblings of the deleted root, re-sorted.
deleteItemSubtreeSibs(st, itemId) ==
  SortByOrder(st, SiblingDocs(st, st[itemId].listId, st[itemId].parentId) \ {itemId})

\* deleteItemSubtree: whether the batch is built and commits.  An update of a
\* document the same batch deleted before fails the whole commit.
deleteItemSubtreeCommits(st, itemId) ==
  /\ st[itemId].exists
  /\ \A d \in DescDocs(st, itemId) : ~ InSeq(deleteItemSubtreeSibs(st, itemId), d)

\* deleteItemSubtree: the store after the commit.
deleteItemSubtreeResult(st, itemId) ==
  LET descSnap == DescDocs(st, itemId)
      sibs == deleteItemSubtreeSibs(st, itemId)
  IN [d \in ItemIds |->
        IF d \in descSnap \cup {itemId} THEN NoItem
        ELSE IF InSeq(sibs, d) THEN [st[d] EXCEPT !.order = PosIn(sibs, d)]
        ELSE st[d]]

\* A faulty reorderSiblings that writes 1-based positions.
reorderSiblingsOneBased(st, orderedIds) ==
  [d \in ItemIds |->
     IF InSeq(orderedIds, d) THEN [st[d] EXCEPT !.order = PosIn(orderedIds, d) + 1]
     ELSE st[d]]

\* reorderSiblings: the store after the commit (orderedIds name existing
\* documents, else the batch fails).
reorderSiblingsResult(st, orderedIds) ==
  [d \in ItemIds |->
     IF InSeq(orderedIds, d) THEN [st[d] EXCEPT !.order = PosIn(orderedIds, d)]
     ELSE st[d]]

\* reparentSubtree: the depth guard, evaluated for a non-null target parent.
reparentDepthExceeded(st, itemId, targetParentId, md) ==
  LET subtreeHeight == computeSubtreeHeight(st, itemId, st[itemId].listId)
      newRootDepth == (Len(st[targetParentId].path) + 1) + 1
  IN newRootDepth + (subtreeHeight - 1) > md

\* A faulty reparentSubtree that does not test whether the target exists.
reparentAcceptedTargetUnchecked(st, itemId, targetParentId, md) ==
  /\ st[itemId].exists
  /\ targetParentId # Null =>
       /\ targetParentId # itemId
       /\ ~ reparentDepthExceeded(st, itemId, targetParentId, md)

\* reparentSubtree: whether the call passes its guards and reaches the commit.
reparentAccepted(st, itemId, targetParentId, md) ==
  /\ st[itemId].exists
  /\ targetParentId # Null =>
       /\ targetParentId # itemId
       /\ st[targetParentId].exists
       /\ ~ reparentDepthExceeded(st, itemId, targetParentId, md)

\* reparentSubtree: the other documents of the target container, sorted.
reparentTargetSibs(st, itemId, targetListId, targetParentId) ==
  SortByOrder(st, SiblingDocs(st, targetListId, targetParentId) \ {itemId})

\* reparentSubtree: the insert index, clamped.
reparentTargetIndex(n, insertIndex) ==
  IF insertIndex = Undefined THEN n ELSE Min(Max(insertIndex, 0), n)

\* reparentSubtree: the documents of the source container, sorted; the query
\* runs before the batch commits, so it still returns the moved root.
reparentOldSibs(st, itemId) ==
  SortByOrder(st, SiblingDocs(st, st[itemId].listId, st[itemId].parentId))

\* reparentSubtree: the store after the commit.  The batch applies its writes
\* in the order they were added: the root, the descendants, the target
\* container's ranks, the source container's ranks.
reparentResult(st, itemId, targetListId, targetParentId, insertIndex) ==
  LET parentPath ==
        IF targetParentId # Null
        THEN Append(st[targetParentId].path, targetParentId)
        ELSE <<>>
      targetSibs == reparentTargetSibs(st, itemId, targetListId, targetParentId)
      targetIndex == reparentTargetIndex(Len(targetSibs), insertIndex)
      descSnap == DescDocs(st, itemId)
      newPrefix == Append(parentPath, itemId)
      suffix(d) ==
        LET idx == IndexOf(st[d].path, itemId)
        IN IF idx >= 0 THEN SliceFrom(st[d].path, idx + 1) ELSE <<>>
      withInserted ==
        SliceTo(targetSibs, targetIndex) \o <<itemId>> \o SliceFrom(targetSibs, targetIndex)
      oldSibs == reparentOldSibs(st, itemId)
      w1(d) ==
        IF d = itemId
        THEN [st[d] EXCEPT !.listId = targetListId, !.parentId = targetParentId,
                           !.path = parentPath, !.order = targetIndex]
        ELSE st[d]
      w2(d) ==
        IF d \in descSnap
        THEN [w1(d) EXCEPT !.listId = targetListId, !.path = newPrefix \o suffix(d)]
        ELSE w1(d)
      w3(d) ==
        IF InSeq(withInserted, d)
        THEN [w2(d) EXCEPT !.order = PosIn(withInserted, d)]
        ELSE w2(d)
      w4(d) ==
        IF InSeq(oldSibs, d)
        THEN [w3(d) EXCEPT !.order = PosIn(oldSibs, d)]
        ELSE w3(d)
  IN [d \in ItemIds |-> w4(d)]

\* A faulty deleteList that does not cascade to the tasks.
deleteListKeepsTasks(st, listId) == st

\* A faulty deleteList whose query lacks the listId filter.
deleteListUnfiltered(st, listId) == [d \in ItemIds |-> NoItem]

\* deleteList: the items collection after the commit.
deleteListResult(st, listId) ==
  [d \in ItemIds |-> IF d \in ListItemDocs(st, listId) THEN NoItem ELSE st[d]]

\* deleteList: the lists collection after the commit.
deleteListLists(ls, listId) == [ls EXCEPT ![listId] = NoList]

\* useLists.createList: the order the hook passes to the service, computed
\* from the hook's lists, which are the store's once the snapshot is delivered.
createListOrder(ls) ==
  IF Cardinality(ListDocs(ls)) > 0
  THEN SetMax({ls[l].order : l \in ListDocs(ls)}) + 1
  ELSE 0

\* createList(uid, title, order): the lists collection after addDoc.
createListResult(ls, id, order) == [ls EXCEPT ![id] = List(order)]

\* reorderLists: the lists collection after the commit (orderedIds name
\* existing documents, else the batch fails).
reorderListsResult(ls, orderedIds) ==
  [l \in ListIds |->
     IF InSeq(orderedIds, l) THEN [ls[l] EXCEPT !.order = PosIn(orderedIds, l)]
     ELSE ls[l]]

----
\* All sequences that list the members of S once each.
Perms(S) ==
  {s \in [1..Cardinality(S) -> S] : \A i, j \in 1..Cardinality(S) : s[i] = s[j] => i = j}

\* createRootItem, from its first read to its return.
createRootItemOutcome(st, id, listId) ==
  [st EXCEPT ![id] = createRootItemDoc(st, listId)]

\* createChildItem, from its first read to its return.
createChildItemOutcome(st, id, parentId, md) ==
  IF createChildItemAccepted(st, parentId, md)
  THEN [st EXCEPT ![id] = createChildItemDoc(st, parentId)]
  ELSE st

\* createChildItem: the value it returns, the new document's id or null.
createChildItemReturns(st, id, parentId, md) ==
  IF createChildItemAccepted(st, parentId, md) THEN id ELSE Null

\* A faulty toggleComplete that writes true instead of the inverse.
toggleCompleteSetsTrue(st, itemId) ==
  IF st[itemId].exists THEN [st EXCEPT ![itemId].completed = TRUE] ELSE st

\* toggleComplete and toggleCollapse, from the read to the return.
toggleCompleteOutcome(st, itemId) ==
  IF st[itemId].exists
  THEN [st EXCEPT ![itemId].completed = ~ st[itemId].completed]
  ELSE st

toggleCollapseOutcome(st, itemId) ==
  IF st[itemId].exists
  THEN [st EXCEPT ![itemId].collapsed = ~ st[itemId].collapsed]
  ELSE st

\* deleteItemSubtree: whether the call raises, which it does when its commit
\* fails.
deleteItemSubtreeRaises(st, itemId) ==
  st[itemId].exists /\ ~ deleteItemSubtreeCommits(st, itemId)

\* deleteItemSubtree, from its first read to its return (or its failed commit).
deleteItemSubtreeOutcome(st, itemId) ==
  IF deleteItemSubtreeCommits(st, itemId) THEN deleteItemSubtreeResult(st, itemId) ELSE st

\* reparentSubtree, from its first read to its return.
reparentOutcome(st, itemId, targetListId, targetParentId, insertIndex, md) ==
  IF reparentAccepted(st, itemId, targetParentId, md)
  THEN reparentResult(st, itemId, targetListId, targetParentId, insertIndex)
  ELSE st

\* App.outdent: the insertIndex it passes, one past the parent's position
\* among the grandparent's children in the task's list (or the end when the
\* parent is not among them); pool is the hook's items.
outdentInsertIndex(pool, itemId) ==
  LET target == pool[itemId]
      parent == pool[target.parentId]
      newSiblings == SortByOrder(pool, SiblingDocs(pool, target.listId, parent.parentId))
  IN IF InSeq(newSiblings, target.parentId)
     THEN PosIn(newSiblings, target.parentId) + 1
     ELSE Len(newSiblings)

\* App.outdent: whether it calls reparentSubtree (the task is in the hook's
\* items and has a parent, which the hook's items hold).
outdentCalls(pool, itemId) ==
  /\ pool[itemId].exists
  /\ pool[itemId].parentId # Null
  /\ pool[pool[itemId].parentId].exists

\* App.outdent, from the click to the return of reparentSubtree; the hook's
\* items are the store's.
outdentOutcome(st, itemId, md) ==
  IF outdentCalls(st, itemId)
  THEN reparentOutcome(st, itemId, st[itemId].listId, st[st[itemId].parentId].parentId,
                       outdentInsertIndex(st, itemId), md)
  ELSE st

\* App.getSiblings: the tasks of the pool in the task's list under its
\* parent, sorted by order.
getSiblings(pool, itemId) ==
  SortByOrder(pool, SiblingDocs(pool, pool[itemId].listId, pool[itemId].parentId))

\* App.indent: whether it calls reparentSubtree (the task is in the hook's
\* items, has a previous sibling, and under it would not lie deeper than
\* maxDepth).
indentCalls(pool, itemId, md) ==
  /\ pool[itemId].exists
  /\ PosIn(getSiblings(pool, itemId), itemId) > 0
  /\ LET newParent == getSiblings(pool, itemId)[PosIn(getSiblings(pool, itemId), itemId)]
     IN Len(pool[newParent].path) + 2 <= md

\* App.indent: the previous sibling, the new parent.
indentNewParent(pool, itemId) ==
  getSiblings(pool, itemId)[PosIn(getSiblings(pool, itemId), itemId)]

\* App.indent, from the click to the return of reparentSubtree; the hook's
\* items are the store's.
indentOutcome(st, itemId, md) ==
  IF indentCalls(st, itemId, md)
  THEN reparentOutcome(st, itemId, st[itemId].listId, indentNewParent(st, itemId),
                       Undefined, md)
  ELSE st

\* App.moveUp and App.moveDown: whether they call reorderSiblings (the task is
\* in the hook's items and is not the first, or not the last, of its
\* siblings).
moveUpCalls(pool, itemId) ==
  pool[itemId].exists /\ PosIn(getSiblings(pool, itemId), itemId) > 0

moveDownCalls(pool, itemId) ==
  /\ pool[itemId].exists
  /\ PosIn(getSiblings(pool, itemId), itemId) < Len(getSiblings(pool, itemId)) - 1

\* The ids of an array with the entries at the 0-based indexes i and j
\* exchanged.
swapped(ids, i, j) ==
  [k \in 1..Len(ids) |->
     IF k = i + 1 THEN ids[j + 1] ELSE IF k = j + 1 THEN ids[i + 1] ELSE ids[k]]

\* App.moveUp and App.moveDown: the orderedIds they pass, the siblings with
\* the task and its neighbour exchanged.
moveUpOrderedIds(pool, itemId) ==
  LET idx == PosIn(getSiblings(pool, itemId), itemId)
  IN swapped(getSiblings(pool, itemId), idx - 1, idx)

moveDownOrderedIds(pool, itemId) ==
  LET idx == PosIn(getSiblings(pool, itemId), itemId)
  IN swapped(getSiblings(pool, itemId), idx, idx + 1)

\* App.moveUp and App.moveDown, from the click to the return of
\* reorderSiblings; the hook's items are the store's.
moveUpOutcome(st, itemId) ==
  IF moveUpCalls(st, itemId)
  THEN reorderSiblingsResult(st, moveUpOrderedIds(st, itemId))
  ELSE st

moveDownOutcome(st, itemId) ==
  IF moveDownCalls(st, itemId)
  THEN reorderSiblingsResult(st, moveDownOrderedIds(st, itemId))
  ELSE st

\* addDoc: the id of a new document.  The store generates an id that was never
\* used; an id of the model is as good as new when no document holds it and
\* no document refers to it.
NewIds(st) ==
  {id \in ItemIds \ Docs(st) :
     \A d \in Docs(st) : st[d].parentId # id /\ ~ Contains(st[d].path, id)}

\* The bound on the explored stores.
PathCap(st) == \A d \in ItemIds : Len(st[d].path) <= MaxPathLen

Init ==
  /\ items = [d \in ItemIds |-> NoItem]
  /\ lists = [l \in ListIds |-> NoList]
  /\ maxDepth \in DepthSettings
  /\ hooks = NoHooks /\ app = NoApp /\ calls = NoCalls

DeleteList ==
  \E l \in ListIds :
    /\ lists' = deleteListLists(lists, l)
    /\ items' = deleteListResult(items, l)
    /\ UNCHANGED <<maxDepth, client>>

CreateRootItem ==
  \E l \in ListIds, id \in NewIds(items) :
    /\ items' = createRootItemOutcome(items, id, l)
    /\ UNCHANGED <<lists, maxDepth, client>>

CreateChildItem ==
  \E p \in ItemIds, id \in NewIds(items) :
    /\ items' = createChildItemOutcome(items, id, p, maxDepth)
    /\ UNCHANGED <<lists, maxDepth, client>>

DeleteItemSubtree ==
  \E id \in ItemIds :
    /\ items' = deleteItemSubtreeOutcome(items, id)
    /\ UNCHANGED <<lists, maxDepth, client>>

ReorderSiblings ==
  \E l \in ListIds, p \in ItemIds \cup {Null} :
    \E orderedIds \in Perms(SiblingDocs(items, l, p)) :
      /\ items' = reorderSiblingsResult(items, orderedIds)
      /\ UNCHANGED <<lists, maxDepth, client>>

ReparentSubtree ==
  \E id \in ItemIds, l \in ListIds, p \in ItemIds \cup {Null} :
    /\ \E i \in InsertIndexes : items' = reparentOutcome(items, id, l, p, i, maxDepth)
    /\ PathCap(items')
    /\ UNCHANGED <<lists, maxDepth, client>>

Next ==
  \/ DeleteList
  \/ CreateRootItem
  \/ CreateChildItem
  \/ DeleteItemSubtree
  \/ ReorderSiblings
  \/ ReparentSubtree

Spec == Init /\ [][Next]_vars

----
(***************************************************************************)
(* The lists and the tasks together: the list operations of the hook       *)
(* (src/src/hooks/useLists.ts), each called after the snapshot of the      *)
(* previous call was delivered, and the task operations on a small store.  *)
(***************************************************************************)

\* addDoc: the id of a new list; no list holds it and no task refers to it.
NewListIds(ls, st) ==
  {l \in ListIds \ ListDocs(ls) : \A d \in Docs(st) : st[d].listId # l}

SmallStore == Cardinality(Docs(items)) < MaxListSpecItems

CreateList ==
  \E id \in NewListIds(lists, items) :
    /\ createListOrder(lists) <= MaxListOrder
    /\ lists' = createListResult(lists, id, createListOrder(lists))
    /\ UNCHANGED <<items, maxDepth, client>>

ReorderLists ==
  \E orderedIds \in Perms(ListDocs(lists)) :
    /\ lists' = reorderListsResult(lists, orderedIds)
    /\ UNCHANGED <<items, maxDepth, client>>

CreateRootItemSmall == SmallStore /\ CreateRootItem
CreateChildItemSmall == SmallStore /\ CreateChildItem

NextLists ==
  \/ CreateList
  \/ DeleteList
  \/ ReorderLists
  \/ CreateRootItemSmall
  \/ CreateChildItemSmall
  \/ DeleteItemSubtree
  \/ ReorderSiblings
  \/ ReparentSubtree

SpecLists == Init /\ [][NextLists]_vars

----
(***************************************************************************)
(* The completed and collapsed flags: the toggles on a small store.        *)
(***************************************************************************)
ToggleComplete ==
  \E id \in ItemIds :
    /\ items' = toggleCompleteOutcome(items, id)
    /\ UNCHANGED <<lists, maxDepth, client>>

ToggleCollapse ==
  \E id \in ItemIds :
    /\ items' = toggleCollapseOutcome(items, id)
    /\ UNCHANGED <<lists, maxDepth, client>>

NextToggle ==
  \/ ToggleComplete
  \/ ToggleCollapse
  \/ CreateRootItemSmall
  \/ CreateChildItemSmall
  \/ DeleteItemSubtree
  \/ ReorderSiblings
  \/ ReparentSubtree

SpecToggle == Init /\ [][NextToggle]_vars

----
(***************************************************************************)
(* The commits of a service call.  A call reads the store, then issues its *)
(* writes: addDoc and updateDoc are one commit each, a write batch is one  *)
(* commit per batch.commit().  Here a call is in flight from its reads to  *)
(* its return and every commit is a step of its own, so that the store     *)
(* between two commits of one call is a state a feed or a reader can see.  *)
(* A commit is the pair <<items, lists>> it leaves.                        *)
(***************************************************************************)

\* A faulty reparentSubtree that commits the root's update on its own and
\* the rest of the batch afterwards.
reparentCommitsRootFirst(st, ls, itemId, targetListId, targetParentId, insertIndex, md) ==
  IF reparentAccepted(st, itemId, targetParentId, md)
  THEN LET parentPath ==
             IF targetParentId # Null
             THEN Append(st[targetParentId].path, targetParentId)
             ELSE <<>>
           root == [st[itemId] EXCEPT !.listId = targetListId, !.parentId = targetParentId,
                                      !.path = parentPath]
       IN << <<[st EXCEPT ![itemId] = root], ls>>,
             <<reparentResult(st, itemId, targetListId, targetParentId, insertIndex), ls>> >>
  ELSE <<>>

\* createRootItem: one addDoc.
createRootItemCommits(st, ls, id, listId) ==
  << <<createRootItemOutcome(st, id, listId), ls>> >>

\* createChildItem: one addDoc, none when the call returns null.
createChildItemCommits(st, ls, id, parentId, md) ==
  IF createChildItemAccepted(st, parentId, md)
  THEN << <<createChildItemOutcome(st, id, parentId, md), ls>> >>
  ELSE <<>>

\* toggleComplete, toggleCollapse: one updateDoc, none for a missing task.
toggleCompleteCommits(st, ls, itemId) ==
  IF st[itemId].exists THEN << <<toggleCompleteOutcome(st, itemId), ls>> >> ELSE <<>>

toggleCollapseCommits(st, ls, itemId) ==
  IF st[itemId].exists THEN << <<toggleCollapseOutcome(st, itemId), ls>> >> ELSE <<>>

\* deleteItemSubtree: one batch.commit(), none for a missing task; a commit
\* that fails leaves the store as it is.
deleteItemSubtreeCommitSeq(st, ls, itemId) ==
  IF st[itemId].exists THEN << <<deleteItemSubtreeOutcome(st, itemId), ls>> >> ELSE <<>>

\* reorderSiblings: one batch.commit().
reorderSiblingsCommits(st, ls, orderedIds) ==
  << <<reorderSiblingsResult(st, orderedIds), ls>> >>

\* reparentSubtree: one batch.commit(), none when a guard returns.
reparentCommits(st, ls, itemId, targetListId, targetParentId, insertIndex, md) ==
  IF reparentAccepted(st, itemId, targetParentId, md)
  THEN << <<reparentResult(st, itemId, targetListId, targetParentId, insertIndex), ls>> >>
  ELSE <<>>

\* createList: one addDoc.
createListCommits(st, ls, id, order) == << <<st, createListResult(ls, id, order)>> >>

\* deleteList: one batch.commit() with the list's delete and its tasks'.
deleteListCommits(st, ls, listId) ==
  << <<deleteListResult(st, listId), deleteListLists(ls, listId)>> >>

\* reorderLists: one batch.commit().
reorderListsCommits(st, ls, orderedIds) == << <<st, reorderListsResult(ls, orderedIds)>> >>

\* A call in flight: the store its reads saw, the commits it issues and the
\* number of them the store has applied.
Call(commits) == [before |-> <<items, lists>>, commits |-> commits, done |-> 0]

\* A call that issues no commit returns at once.
StartCall(commits) ==
  /\ calls = <<>>
  /\ calls' = IF commits = <<>> THEN <<>> ELSE <<Call(commits)>>
  /\ UNCHANGED <<items, lists, maxDepth, hooks, app>>

RoomForCommit ==
  Cardinality(Docs(items)) + Cardinality(ListDocs(lists)) < MaxCommitSpecDocs

StartCreateRootItem ==
  \E l \in ListIds, id \in NewIds(items) :
    RoomForCommit /\ StartCall(createRootItemCommits(items, lists, id, l))

StartCreateChildItem ==
  \E p \in ItemIds, id \in NewIds(items) :
    RoomForCommit /\ StartCall(createChildItemCommits(items, lists, id, p, maxDepth))

StartDeleteItemSubtree ==
  \E id \in ItemIds : StartCall(deleteItemSubtreeCommitSeq(items, lists, id))

StartReorderSiblings ==
  \E l \in ListIds, p \in ItemIds \cup {Null} :
    \E orderedIds \in Perms(SiblingDocs(items, l, p)) :
      StartCall(reorderSiblingsCommits(items, lists, orderedIds))

StartReparentSubtree ==
  \E id \in ItemIds, l \in ListIds, p \in ItemIds \cup {Null}, i \in InsertIndexes :
    LET commits == reparentCommits(items, lists, id, l, p, i, maxDepth)
    IN /\ \A k \in 1..Len(commits) : PathCap(commits[k][1])
       /\ StartCall(commits)

StartCreateList ==
  \E id \in NewListIds(lists, items) :
    /\ RoomForCommit
    /\ createListOrder(lists) <= MaxListOrder
    /\ StartCall(createListCommits(items, lists, id, createListOrder(lists)))

StartDeleteList ==
  \E l \in ListIds : StartCall(deleteListCommits(items, lists, l))

StartReorderLists ==
  \E orderedIds \in Perms(ListDocs(lists)) :
    StartCall(reorderListsCommits(items, lists, orderedIds))

\* The store applies the next commit of the call in flight; the call returns
\* after its last commit.
Commit ==
  /\ calls # <<>>
  /\ LET call == calls[1]
         commit == call.commits[call.done + 1]
     IN /\ items' = commit[1]
        /\ lists' = commit[2]
        /\ calls' = IF call.done + 1 = Len(call.commits)
                    THEN <<>>
                    ELSE <<[call EXCEPT !.done = @ + 1]>>
  /\ UNCHANGED <<maxDepth, hooks, app>>

NextCommits ==
  \/ StartCreateRootItem
  \/ StartCreateChildItem
  \/ StartDeleteItemSubtree
  \/ StartReorderSiblings
  \/ StartReparentSubtree
  \/ StartCreateList
  \/ StartDeleteList
  \/ StartReorderLists
  \/ Commit

SpecCommits == Init /\ [][NextCommits]_vars

----
(***************************************************************************)
(* The hooks.  useLists(uid) and useItems(uid, maxDepth) each keep the     *)
(* last snapshot of their feed, a loading flag and, through their effect,  *)
(* a subscription; useItems binds maxDepth into its createChildItem and    *)
(* reparentSubtree callbacks (src/src/hooks/useLists.ts, useItems).        *)
(***************************************************************************)

\* export const MAX_DEPTH = 4, the App's first maxDepth.
MAX_DEPTH == 4

\* The values typed into the App's max depth input.
DepthTyped == {0, 1, 2, 13}

\* A faulty guard that lets an absent uid through.
uidPresentAlways(uid) == TRUE

\* `if (!uid) return`: the guard of the subscription effects and of every
\* operation of the two hooks.
uidPresent(uid) == uid # Null

\* A faulty dependency list of the two callbacks that leaves maxDepth out.
useCallbackDepsUidOnly(uid, md) == <<uid>>

\* useCallback(..., [uid, maxDepth]): the dependencies of createChildItem and
\* reparentSubtree.
useCallbackDeps(uid, md) == <<uid, md>>

\* useCallback: the callback of the previous render is kept while the
\* dependencies are the same; a new one binds the render's uid and maxDepth.
useCallback(prev, uid, md) ==
  IF prev.deps = useCallbackDeps(uid, md)
  THEN prev
  ELSE [deps |-> useCallbackDeps(uid, md), uid |-> uid, maxDepth |-> md]

\* The state of one hook at its first render: useState([]),
\* useState(!!uid), no subscription yet.
HookState(empty, uid) == [data |-> empty, loading |-> uid # Null, subs |-> <<>>]

\* A faulty subscription effect whose cleanup does not unsubscribe.
subscribeEffectNoCleanup(h, uid) ==
  IF ~ uidPresent(uid)
  THEN h
  ELSE [h EXCEPT !.loading = TRUE,
                 !.subs = Append(@, [uid |-> uid, pending |-> TRUE])]

\* The subscription effect of a hook, run after the first render and after
\* every render whose uid differs from the previous one: the cleanup of the
\* previous run unsubscribes, after which the feed delivers nothing more of
\* that subscription; then the effect returns for an absent uid or sets
\* loading and subscribes.  A subscription holds its uid and whether a
\* snapshot of it awaits delivery; the first one does from the start.
subscribeEffect(h, uid) ==
  IF ~ uidPresent(uid)
  THEN [h EXCEPT !.subs = <<>>]
  ELSE [h EXCEPT !.loading = TRUE,
                 !.subs = <<[uid |-> uid, pending |-> TRUE]>>]

\* The hooks at the App's first render with uid and maxDepth, effects run.
MountHooks(uid, md) ==
  [mounted |-> TRUE,
   uid |-> uid,
   callbacks |-> [deps |-> useCallbackDeps(uid, md), uid |-> uid, maxDepth |-> md],
   lists |-> subscribeEffect(HookState([l \in ListIds |-> NoList], uid), uid),
   items |-> subscribeEffect(HookState([d \in ItemIds |-> NoItem], uid), uid)]

\* The hooks after a render with uid and maxDepth: the effects run when uid
\* changed, the callbacks are memoized on their dependencies.
RenderHooks(h, uid, md) ==
  [h EXCEPT !.uid = uid,
            !.callbacks = useCallback(h.callbacks, uid, md),
            !.lists = IF uid = h.uid THEN @ ELSE subscribeEffect(@, uid),
            !.items = IF uid = h.uid THEN @ ELSE subscribeEffect(@, uid)]

\* useItems.createChildItem and useItems.reparentSubtree: the callbacks of the
\* last render, which return for an absent uid and else call the service
\* with the maxDepth they bound.
useItemsCreateChildItem(h, st, id, parentId) ==
  IF ~ uidPresent(h.callbacks.uid) THEN st
  ELSE createChildItemOutcome(st, id, parentId, h.callbacks.maxDepth)

useItemsReparentSubtree(h, st, itemId, targetListId, targetParentId, insertIndex) ==
  IF ~ uidPresent(h.callbacks.uid) THEN st
  ELSE reparentOutcome(st, itemId, targetListId, targetParentId, insertIndex,
                       h.callbacks.maxDepth)

(***************************************************************************)
(* The max depth input of the App on a small store of one signed-in user.  *)
(***************************************************************************)

\* onChange of the max depth input: setMaxDepth(Math.max(1, Math.min(12, v))),
\* then the App renders again and the hooks with it.
SetMaxDepth ==
  \E v \in DepthTyped :
    /\ maxDepth' = Max(1, Min(12, v))
    /\ hooks' = RenderHooks(hooks, hooks.uid, maxDepth')
    /\ UNCHANGED <<items, lists, app, calls>>

AddChild ==
  \E p \in ItemIds, id \in NewIds(items) :
    /\ SmallStore
    /\ items' = useItemsCreateChildItem(hooks, items, id, p)
    /\ UNCHANGED <<lists, maxDepth, client>>

MoveItem ==
  \E id \in ItemIds, l \in ListIds, p \in ItemIds \cup {Null}, i \in InsertIndexes :
    /\ items' = useItemsReparentSubtree(hooks, items, id, l, p, i)
    /\ PathCap(items')
    /\ UNCHANGED <<lists, maxDepth, client>>

InitDepth ==
  /\ items = [d \in ItemIds |-> NoItem]
  /\ lists = [l \in ListIds |-> NoList]
  /\ maxDepth = MAX_DEPTH
  /\ hooks = MountHooks(1, MAX_DEPTH)
  /\ app = NoApp /\ calls = NoCalls

NextDepth ==
  \/ SetMaxDepth
  \/ CreateRootItemSmall
  \/ AddChild
  \/ MoveItem
  \/ DeleteItemSubtree
  \/ ReorderSiblings

SpecDepth == InitDepth /\ [][NextDepth]_vars

----
(***************************************************************************)
(* Several users.  The database holds users/{uid}/items and                *)
(* users/{uid}/lists; in the specifications above `items` and `lists` are  *)
(* the two subcollections of the one signed-in user, here they hold the    *)
(* subcollections of every user, keyed by the path of the user document.   *)
(* Every service function takes the uid and reaches the store through      *)
(* userSubcollectionRef(uid, name) only.                                   *)
(***************************************************************************)
Users == 1..MaxUsers

\* A faulty userDocRef that ignores the uid: one document for every user.
sharedDocRef(uid) == 1

\* userDocRef(uid): doc(db, 'users', uid), the path of the user document.
userDocRef(uid) == uid

\* userSubcollectionRef(uid, name): the collection `name` below the user
\* document; col holds the collections of that name of every user.
userSubcollectionRef(col, uid) == col[userDocRef(uid)]

\* The writes of a call made with uid, which all go to documents of
\* userSubcollectionRef(uid, name): the collection becomes new.
commitTo(col, uid, new) == [col EXCEPT ![userDocRef(uid)] = new]

\* subscribeItems(uid, cb) and subscribeLists(uid, cb): the snapshot a feed
\* delivers.
subscribeItems(col, uid) == userSubcollectionRef(col, uid)
subscribeLists(col, uid) == userSubcollectionRef(col, uid)

DbDocs(col) == {<<u, d>> \in Users \X ItemIds : col[u][d].exists}
DbLists(col) == {<<u, l>> \in Users \X ListIds : col[u][l].exists}

InitUsers ==
  /\ items = [u \in Users |-> [d \in ItemIds |-> NoItem]]
  /\ lists = [u \in Users |-> [l \in ListIds |-> NoList]]
  /\ maxDepth \in DepthSettings
  /\ hooks = NoHooks /\ app = NoApp /\ calls = NoCalls

UserCreateList ==
  \E u \in Users :
    LET ls == userSubcollectionRef(lists, u)
    IN \E id \in NewListIds(ls, userSubcollectionRef(items, u)) :
         /\ Cardinality(DbLists(lists)) + Cardinality(DbDocs(items)) < MaxUserSpecDocs
         /\ createListOrder(ls) <= MaxListOrder
         /\ lists' = commitTo(lists, u, createListResult(ls, id, createListOrder(ls)))
         /\ UNCHANGED <<items, maxDepth, client>>

UserDeleteList ==
  \E u \in Users, l \in ListIds :
    /\ lists' = commitTo(lists, u, deleteListLists(userSubcollectionRef(lists, u), l))
    /\ items' = commitTo(items, u, deleteListResult(userSubcollectionRef(items, u), l))
    /\ UNCHANGED <<maxDepth, client>>

UserReorderLists ==
  \E u \in Users :
    \E orderedIds \in Perms(ListDocs(userSubcollectionRef(lists, u))) :
      /\ lists' = commitTo(lists, u, reorderListsResult(userSubcollectionRef(lists, u), orderedIds))
      /\ UNCHANGED <<items, maxDepth, client>>

UserCreateRootItem ==
  \E u \in Users, l \in ListIds :
    LET st == userSubcollectionRef(items, u)
    IN \E id \in NewIds(st) :
         /\ Cardinality(DbLists(lists)) + Cardinality(DbDocs(items)) < MaxUserSpecDocs
         /\ items' = commitTo(items, u, createRootItemOutcome(st, id, l))
         /\ UNCHANGED <<lists, maxDepth, client>>

UserCreateChildItem ==
  \E u \in Users, p \in ItemIds :
    LET st == userSubcollectionRef(items, u)
    IN \E id \in NewIds(st) :
         /\ Cardinality(DbLists(lists)) + Cardinality(DbDocs(items)) < MaxUserSpecDocs
         /\ items' = commitTo(items, u, createChildItemOutcome(st, id, p, maxDepth))
         /\ UNCHANGED <<lists, maxDepth, client>>

UserDeleteItemSubtree ==
  \E u \in Users, id \in ItemIds :
    /\ items' = commitTo(items, u, deleteItemSubtreeOutcome(userSubcollectionRef(items, u), id))
    /\ UNCHANGED <<lists, maxDepth, client>>

UserReorderSiblings ==
  \E u \in Users, g \in ListIds \X (ItemIds \cup {Null}) :
    LET st == userSubcollectionRef(items, u)
    IN \E orderedIds \in Perms(SiblingDocs(st, g[1], g[2])) :
         /\ items' = commitTo(items, u, reorderSiblingsResult(st, orderedIds))
         /\ UNCHANGED <<lists, maxDepth, client>>

UserReparentSubtree ==
  \E u \in Users, id \in ItemIds, l \in ListIds, p \in ItemIds \cup {Null} :
    LET st == userSubcollectionRef(items, u)
    IN /\ \E i \in InsertIndexes :
            items' = commitTo(items, u, reparentOutcome(st, id, l, p, i, maxDepth))
       /\ \A v \in Users : PathCap(items'[v])
       /\ UNCHANGED <<lists, maxDepth, client>>

NextUsers ==
  \/ UserCreateList
  \/ UserDeleteList
  \/ UserReorderLists
  \/ UserCreateRootItem
  \/ UserCreateChildItem
  \/ UserDeleteItemSubtree
  \/ UserReorderSiblings
  \/ UserReparentSubtree

SpecUsers == InitUsers /\ [][NextUsers]_vars

----
(***************************************************************************)
(* The hooks over the database of several users.  The App mounts the hooks *)
(* with the uid of the signed-in user (or none), the uid changes with the  *)
(* authentication state, the feeds deliver their snapshots one at a time   *)
(* and the operations of the hooks write to the store.                     *)
(***************************************************************************)

\* The store requests a service call issues when it passes all its guards.
serviceRequests ==
  [createRootItem |-> <<"getDocs", "addDoc">>,
   createChildItem |-> <<"getDoc", "getDocs", "addDoc">>,
   updateItem |-> <<"updateDoc">>,
   toggleComplete |-> <<"getDoc", "updateDoc">>,
   toggleCollapse |-> <<"getDoc", "updateDoc">>,
   deleteItemSubtree |-> <<"getDoc", "getDocs", "getDocs", "commit">>,
   reorderSiblings |-> <<"commit">>,
   reparentSubtree |-> <<"getDoc", "getDoc", "getDocs", "getDoc", "getDocs", "getDocs",
                         "getDocs", "commit">>,
   createList |-> <<"addDoc">>,
   renameList |-> <<"updateDoc">>,
   deleteList |-> <<"getDocs", "commit">>,
   reorderLists |-> <<"commit">>]

\* The store requests of an operation of the hooks: none for an absent uid,
\* else those of the service it calls.
hookRequests(h, op) == IF ~ uidPresent(h.uid) THEN <<>> ELSE serviceRequests[op]

\* The operations of useItems and useLists on the collections of the hook's
\* user: each returns at once for an absent uid and else calls its service.
useItemsCreateRootItem(h, st, id, listId) ==
  IF ~ uidPresent(h.uid) THEN st ELSE createRootItemOutcome(st, id, listId)

useItemsToggleComplete(h, st, itemId) ==
  IF ~ uidPresent(h.uid) THEN st ELSE toggleCompleteOutcome(st, itemId)

useItemsToggleCollapse(h, st, itemId) ==
  IF ~ uidPresent(h.uid) THEN st ELSE toggleCollapseOutcome(st, itemId)

useItemsDeleteItemSubtree(h, st, itemId) ==
  IF ~ uidPresent(h.uid) THEN st ELSE deleteItemSubtreeOutcome(st, itemId)

useItemsReorderSiblings(h, st, orderedIds) ==
  IF ~ uidPresent(h.uid) THEN st ELSE reorderSiblingsResult(st, orderedIds)

\* useLists.createList computes the order from the hook's lists.
useListsCreateList(h, ls, id) ==
  IF ~ uidPresent(h.uid) THEN ls
  ELSE createListResult(ls, id, createListOrder(h.lists.data))

useListsDeleteListLists(h, ls, listId) ==
  IF ~ uidPresent(h.uid) THEN ls ELSE deleteListLists(ls, listId)

useListsDeleteListItems(h, st, listId) ==
  IF ~ uidPresent(h.uid) THEN st ELSE deleteListResult(st, listId)

useListsReorderLists(h, ls, orderedIds) ==
  IF ~ uidPresent(h.uid) THEN ls ELSE reorderListsResult(ls, orderedIds)

\* The collections of the hooks' user, which are what a call of the hooks
\* reaches; with an absent uid no call reaches the store.
OwnItems ==
  IF uidPresent(hooks.uid) THEN userSubcollectionRef(items, hooks.uid)
  ELSE [d \in ItemIds |-> NoItem]

OwnLists ==
  IF uidPresent(hooks.uid) THEN userSubcollectionRef(lists, hooks.uid)
  ELSE [l \in ListIds |-> NoList]

PutOwn(col, new) == IF uidPresent(hooks.uid) THEN commitTo(col, hooks.uid, new) ELSE col

\* onSnapshot: a write to the collection of a user makes a snapshot due for
\* every subscription to it.
notify(subs, old, new) ==
  [i \in 1..Len(subs) |->
     IF old[userDocRef(subs[i].uid)] # new[userDocRef(subs[i].uid)]
     THEN [subs[i] EXCEPT !.pending = TRUE]
     ELSE subs[i]]

\* A call of the hooks that leaves the collections newItems and newLists.
HookCall(newItems, newLists) ==
  /\ items' = newItems
  /\ lists' = newLists
  /\ hooks' = [hooks EXCEPT !.items.subs = notify(@, items, newItems),
                            !.lists.subs = notify(@, lists, newLists)]
  /\ UNCHANGED <<maxDepth, app, calls>>

\* addDoc in these runs: the first of the ids that are as good as new.
FirstNewId(st) == {id \in NewIds(st) : \A e \in NewIds(st) : id <= e}
FirstNewListId(ls, st) ==
  {id \in NewListIds(ls, st) : \A e \in NewListIds(ls, st) : id <= e}

RoomForHooks ==
  Cardinality(DbDocs(items)) + Cardinality(DbLists(lists)) < MaxHookSpecDocs

\* A faulty snapshot callback that leaves the loading flag as it is.
snapshotCallbackKeepsLoading(h, snap) == [h EXCEPT !.data = snap]

\* The callback the effect passes to subscribeItems or subscribeLists:
\* setItems(its); setLoading(false).
snapshotCallback(h, snap) == [h EXCEPT !.data = snap, !.loading = FALSE]

\* The feed delivers the snapshot due for subscription i of a hook: the
\* callback runs.
deliver(h, i, snap) == [snapshotCallback(h, snap) EXCEPT !.subs[i].pending = FALSE]

InitHooks ==
  /\ items = [u \in Users |-> [d \in ItemIds |-> NoItem]]
  /\ lists = [u \in Users |-> [l \in ListIds |-> NoList]]
  /\ maxDepth = MAX_DEPTH
  /\ hooks = NoHooks /\ app = NoApp /\ calls = NoCalls

\* The App mounts: the first render of the hooks and their effects.
Mount ==
  /\ ~ hooks.mounted
  /\ \E u \in Users \cup {Null} : hooks' = MountHooks(u, maxDepth)
  /\ UNCHANGED <<items, lists, maxDepth, app, calls>>

\* The App unmounts: the cleanups of the effects unsubscribe and the state of
\* the hooks is gone.
Unmount ==
  /\ hooks.mounted
  /\ hooks' = NoHooks
  /\ UNCHANGED <<items, lists, maxDepth, app, calls>>

\* The authentication state changes: the hooks render with another uid.
AuthChange ==
  /\ hooks.mounted
  /\ \E u \in (Users \cup {Null}) \ {hooks.uid} : hooks' = RenderHooks(hooks, u, maxDepth)
  /\ UNCHANGED <<items, lists, maxDepth, app, calls>>

SnapshotItems ==
  /\ hooks.mounted
  /\ \E i \in 1..Len(hooks.items.subs) :
       /\ hooks.items.subs[i].pending
       /\ hooks' = [hooks EXCEPT !.items =
                      deliver(@, i, subscribeItems(items, hooks.items.subs[i].uid))]
  /\ UNCHANGED <<items, lists, maxDepth, app, calls>>

SnapshotLists ==
  /\ hooks.mounted
  /\ \E i \in 1..Len(hooks.lists.subs) :
       /\ hooks.lists.subs[i].pending
       /\ hooks' = [hooks EXCEPT !.lists =
                      deliver(@, i, subscribeLists(lists, hooks.lists.subs[i].uid))]
  /\ UNCHANGED <<items, lists, maxDepth, app, calls>>

UseListsCreateList ==
  /\ hooks.mounted
  /\ \E id \in FirstNewListId(OwnLists, OwnItems) :
       /\ RoomForHooks
       /\ createListOrder(hooks.lists.data) <= MaxListOrder
       /\ HookCall(items, PutOwn(lists, useListsCreateList(hooks, OwnLists, id)))

UseListsDeleteList ==
  /\ hooks.mounted
  /\ \E l \in ListIds :
       HookCall(PutOwn(items, useListsDeleteListItems(hooks, OwnItems, l)),
                PutOwn(lists, useListsDeleteListLists(hooks, OwnLists, l)))

UseListsReorderLists ==
  /\ hooks.mounted
  /\ \E orderedIds \in Perms(ListDocs(OwnLists)) :
       HookCall(items, PutOwn(lists, useListsReorderLists(hooks, OwnLists, orderedIds)))

UseItemsCreateRootItem ==
  /\ hooks.mounted
  /\ \E l \in ListIds, id \in FirstNewId(OwnItems) :
       /\ RoomForHooks
       /\ HookCall(PutOwn(items, useItemsCreateRootItem(hooks, OwnItems, id, l)), lists)

UseItemsCreateChildItem ==
  /\ hooks.mounted
  /\ \E p \in ItemIds, id \in FirstNewId(OwnItems) :
       /\ RoomForHooks
       /\ HookCall(PutOwn(items, useItemsCreateChildItem(hooks, OwnItems, id, p)), lists)

UseItemsDeleteItemSubtree ==
  /\ hooks.mounted
  /\ \E id \in ItemIds :
       HookCall(PutOwn(items, useItemsDeleteItemSubtree(hooks, OwnItems, id)), lists)

UseItemsReorderSiblings ==
  /\ hooks.mounted
  /\ \E l \in ListIds, p \in ItemIds \cup {Null} :
       \E orderedIds \in Perms(SiblingDocs(OwnItems, l, p)) :
         HookCall(PutOwn(items, useItemsReorderSiblings(hooks, OwnItems, orderedIds)), lists)

UseItemsReparentSubtree ==
  /\ hooks.mounted
  /\ \E id \in ItemIds, l \in ListIds, p \in ItemIds \cup {Null}, i \in InsertIndexes :
       HookCall(PutOwn(items, useItemsReparentSubtree(hooks, OwnItems, id, l, p, i)), lists)

NextHooks ==
  \/ Mount
  \/ Unmount
  \/ AuthChange
  \/ SnapshotItems
  \/ SnapshotLists
  \/ UseListsCreateList
  \/ UseListsDeleteList
  \/ UseListsReorderLists
  \/ UseItemsCreateRootItem
  \/ UseItemsCreateChildItem
  \/ UseItemsDeleteItemSubtree
  \/ UseItemsReorderSiblings
  \/ UseItemsReparentSubtree

SpecHooks == InitHooks /\ [][NextHooks]_vars

\* The feeds deliver: a snapshot that is due is delivered in the end.
SpecHooksFair ==
  /\ SpecHooks
  /\ WF_vars(SnapshotItems)
  /\ WF_vars(SnapshotLists)

----
(***************************************************************************)
(* The App component (src/src/App.tsx) of one signed-in user: its          *)
(* optimistic state, the displayLists and displayItems it computes at      *)
(* every render, its reconciliation effects, its add handlers and the item *)
(* part of onDragEnd, over the two hooks and the store.  A step is one     *)
(* event of the page (a handler, a commit of the store, the return of an   *)
(* awaited call, a snapshot, an effect) together with the render that      *)
(* follows it, so every state holds a rendered App.                        *)
(***************************************************************************)

\* The array a snapshot or a memo holds: entries of an id and the other
\* fields of the document, here in ascending id order.
Ascending(S) ==
  [i \in 1..Cardinality(S) |-> CHOOSE d \in S : Cardinality({e \in S : e < d}) = i - 1]

\* subscribeItems: snap.docs.map((d) => ({ id: d.id, ...d.data() })).
itemsArray(st) ==
  LET ids == Ascending(Docs(st)) IN [i \in 1..Len(ids) |-> [id |-> ids[i], doc |-> st[ids[i]]]]

\* subscribeLists: the same over query(..., orderBy('order', 'asc')).
listsArray(ls) ==
  LET ids == SortByOrder(ls, ListDocs(ls)) IN [i \in 1..Len(ids) |-> [id |-> ids[i], doc |-> ls[ids[i]]]]

\* [...arr].sort((a, b) => a.order - b.order): a stable sort of an array.
sortEntries(s) ==
  LET before(i, j) ==
        \/ s[i].doc.order < s[j].doc.order
        \/ s[i].doc.order = s[j].doc.order /\ i < j
      rank(j) == Cardinality({i \in 1..Len(s) : before(i, j)})
  IN [k \in 1..Len(s) |-> s[CHOOSE j \in 1..Len(s) : rank(j) = k - 1]]

\* arr.map((x) => x.id)
idsOf(s) == [i \in 1..Len(s) |-> s[i].id]

\* arr.find((x) => x.id === id): whether there is one, and the first.
hasEntry(s, id) == \E i \in 1..Len(s) : s[i].id = id
findEntry(s, id) ==
  s[CHOOSE i \in 1..Len(s) : s[i].id = id /\ \A j \in 1..(i - 1) : s[j].id # id]

\* `temp-list-${Date.now()}` and `temp-item-${Date.now()}`: the id of the
\* placeholder made with clientId c, which is no document id.
tempId(c) == 0 - c

\* useState of the App at its first render.
MountApp ==
  [mounted |-> TRUE,
   optimisticListOrder |-> <<>>,        \* string[] | null: <<>> or <<ids>>
   optimisticListsAdd |-> <<>>,
   optimisticListsDelete |-> {},
   optimisticItemChange |-> [type |-> "null"],
   optimisticItemsAdd |-> <<>>,
   optimisticItemsDelete |-> {},
   clientIds |-> 0]                     \* the clientIds generated so far

\* displayLists (useMemo), from the hook's lists and the optimistic state.
displayLists(ls, a) ==
  LET kept(l) == l.id \notin a.optimisticListsDelete
      sorted == sortEntries(SelectSeq(listsArray(ls), kept))
      withAdds == sorted \o a.optimisticListsAdd
      ids == IF a.optimisticListOrder = <<>> THEN idsOf(withAdds)
             ELSE a.optimisticListOrder[1]
      known(id) == hasEntry(withAdds, id)
      found == SelectSeq(ids, known)
      \* new Map(...) keeps the last entry of an id
      get(id) == withAdds[CHOOSE i \in 1..Len(withAdds) :
                   withAdds[i].id = id /\ \A j \in (i + 1)..Len(withAdds) : withAdds[j].id # id]
  IN [i \in 1..Len(found) |-> get(found[i])]

\* A faulty placeholder filter that shows every placeholder.
itemPlaceholderShownAlways(baseClientIds, it) == TRUE

\* displayItems: the filter of optimisticItemsAdd,
\* (it) => !it.clientId || !baseClientIds.has(it.clientId).
itemPlaceholderShown(baseClientIds, it) ==
  it.doc.clientId = Null \/ it.doc.clientId \notin baseClientIds

\* displayItems: the base, the snapshot without the optimistically deleted
\* tasks and their descendants, then the placeholders not yet in it.
displayBase(st, a) ==
  LET kept(it) ==
        /\ it.id \notin a.optimisticItemsDelete
        /\ \A i \in 1..Len(it.doc.path) : it.doc.path[i] \notin a.optimisticItemsDelete
      base == SelectSeq(itemsArray(st), kept)
      baseClientIds == {base[i].doc.clientId : i \in 1..Len(base)} \ {Null}
      shown(it) == itemPlaceholderShown(baseClientIds, it)
  IN base \o SelectSeq(a.optimisticItemsAdd, shown)

\* displayItems, the reorder branch: the order of the entries of the group
\* that orderedIds names becomes their index in it.
displayReorder(base, ch) ==
  [i \in 1..Len(base) |->
     IF /\ base[i].doc.listId = ch.listId
        /\ base[i].doc.parentId = ch.parentId
        /\ InSeq(ch.orderedIds, base[i].id)
     THEN [base[i] EXCEPT !.doc.order = PosIn(ch.orderedIds, base[i].id)]
     ELSE base[i]]

\* displayItems, the reparent branch, on a copy of the base.
displayReparent(base, ch) ==
  IF ~ hasEntry(base, ch.itemId) THEN base
  ELSE
    LET source == findEntry(base, ch.itemId)
        isDesc(x) == x.doc.listId = source.doc.listId /\ Contains(x.doc.path, source.id)
        hasParent == ch.targetParentId # Null /\ hasEntry(base, ch.targetParentId)
        parent == findEntry(base, ch.targetParentId)
        newPath == IF hasParent THEN Append(parent.doc.path, parent.id) ELSE <<>>
        isTargetSib(x) ==
          /\ x.doc.listId = ch.targetListId
          /\ x.doc.parentId = ch.targetParentId
          /\ x.id # source.id
        targetSibs == idsOf(sortEntries(SelectSeq(base, isTargetSib)))
        idx == reparentTargetIndex(Len(targetSibs), ch.insertIndex)
        isOldSib(x) ==
          /\ x.doc.listId = source.doc.listId
          /\ x.doc.parentId = source.doc.parentId
          /\ x.id # source.id
        oldSibs == idsOf(sortEntries(SelectSeq(base, isOldSib)))
        newPrefix == Append(newPath, source.id)
        withInserted ==
          SubSeq(targetSibs, 1, idx) \o <<source.id>> \o SubSeq(targetSibs, idx + 1, Len(targetSibs))
        asRoot(x) ==
          IF x.id = source.id
          THEN [x.doc EXCEPT !.listId = ch.targetListId, !.parentId = ch.targetParentId,
                             !.path = newPath, !.order = idx]
          ELSE x.doc
        asDesc(x, d) ==
          IF isDesc(x)
          THEN [d EXCEPT !.listId = ch.targetListId,
                         !.path = newPrefix \o
                           (IF IndexOf(d.path, source.id) >= 0
                            THEN SliceFrom(d.path, IndexOf(d.path, source.id) + 1)
                            ELSE <<>>)]
          ELSE d
        reindexed(x, d) ==
          IF InSeq(oldSibs, x.id) THEN [d EXCEPT !.order = PosIn(oldSibs, x.id)]
          ELSE IF InSeq(withInserted, x.id) THEN [d EXCEPT !.order = PosIn(withInserted, x.id)]
          ELSE d
    IN [i \in 1..Len(base) |->
          [base[i] EXCEPT !.doc = reindexed(base[i], asDesc(base[i], asRoot(base[i])))]]

\* displayItems (useMemo), from the hook's items and the optimistic state.
displayItems(st, a) ==
  LET base == displayBase(st, a)
      ch == a.optimisticItemChange
  IN IF ch.type = "reorder" THEN displayReorder(base, ch)
     ELSE IF ch.type = "reparent" THEN displayReparent(base, ch)
     ELSE base

\* displayItems, the reorder branch, sets the new order on the objects of the
\* base themselves (next is a shallow copy), which are the objects of the
\* hook's items and of optimisticItemsAdd: what these hold after a render.
renderItems(st, a) ==
  LET shown == displayItems(st, a)
  IN IF a.optimisticItemChange.type = "reorder"
     THEN [d \in ItemIds |-> IF hasEntry(shown, d) THEN findEntry(shown, d).doc ELSE st[d]]
     ELSE st

renderAdds(st, a) ==
  LET shown == displayItems(st, a)
      adds == a.optimisticItemsAdd
  IN IF a.optimisticItemChange.type = "reorder"
     THEN [i \in 1..Len(adds) |->
             IF hasEntry(shown, adds[i].id) THEN findEntry(shown, adds[i].id) ELSE adds[i]]
     ELSE adds

\* The render that follows an event which left the hooks as h and the App's
\* state as a.
Render(h, a) ==
  /\ hooks' = [h EXCEPT !.items.data = renderItems(h.items.data, a)]
  /\ app' = [a EXCEPT !.optimisticItemsAdd = renderAdds(h.items.data, a)]

\* onSnapshot: a commit that changes a collection makes a snapshot of it due.
changed(h, old, new) ==
  IF old = new THEN h
  ELSE [h EXCEPT !.subs = [i \in 1..Len(h.subs) |-> [h.subs[i] EXCEPT !.pending = TRUE]]]

\* arrayMove of @dnd-kit/sortable: the element at index from moves to index to.
arrayMove(s, from, to) ==
  LET without == SubSeq(s, 1, from) \o SubSeq(s, from + 2, Len(s))
  IN SubSeq(without, 1, to) \o <<s[from + 1]>> \o SubSeq(without, to + 1, Len(without))

\* The calls of a kind that have not committed yet.
pendingCalls(ops) ==
  Cardinality({i \in 1..Len(calls) : calls[i].op \in ops /\ ~ calls[i].committed})

\* The ids the client still names: addDoc never gives out one of them.
namedByClient ==
  app.optimisticItemsDelete
    \cup {calls[i].itemId : i \in {j \in 1..Len(calls) : calls[j].op \in {"deleteItemSubtree", "reparentSubtree"}}}
    \cup (IF app.optimisticItemChange.type = "reparent"
          THEN {app.optimisticItemChange.itemId, app.optimisticItemChange.targetParentId}
          ELSE IF app.optimisticItemChange.type = "reorder"
          THEN {app.optimisticItemChange.orderedIds[i] :
                  i \in 1..Len(app.optimisticItemChange.orderedIds)}
          ELSE {})

AppNewId ==
  {id \in NewIds(items) \ namedByClient : \A e \in NewIds(items) \ namedByClient : id <= e}

RoomForList ==
  Cardinality(ListDocs(lists)) + pendingCalls({"createList"}) < MaxAppSpecLists
RoomForItem ==
  Cardinality(Docs(items)) + pendingCalls({"createRootItem", "createChildItem"})
    < MaxAppSpecItems
RoomForCall == Len(calls) < MaxAppCalls /\ app.mounted

InitApp ==
  /\ items = [d \in ItemIds |-> NoItem]
  /\ lists = [l \in ListIds |-> NoList]
  /\ maxDepth = MAX_DEPTH
  /\ hooks = MountHooks(1, MAX_DEPTH)
  /\ app = MountApp
  /\ calls = NoCalls

\* addList, up to its await.
AddList ==
  /\ RoomForCall /\ RoomForList /\ app.clientIds < MaxClientIds
  /\ LET c == app.clientIds + 1
         placeholder ==
           [id |-> tempId(c),
            doc |-> [List(Len(displayLists(hooks.lists.data, app))) EXCEPT !.clientId = c]]
     IN /\ calls' = Append(calls, [op |-> "createList", clientId |-> c,
                                   order |-> createListOrder(hooks.lists.data),
                                   committed |-> FALSE])
        /\ Render(hooks, [app EXCEPT !.optimisticListsAdd = Append(@, placeholder),
                                     !.clientIds = c])
  /\ UNCHANGED <<items, lists, maxDepth>>

\* addRootItem of a list of the store that is displayed, up to its await.
AddRootItem ==
  /\ RoomForCall /\ RoomForItem /\ app.clientIds < MaxClientIds
  /\ \E listId \in ListIds :
       /\ hasEntry(displayLists(hooks.lists.data, app), listId)
       /\ LET c == app.clientIds + 1
              isSibling(x) == x.doc.listId = listId /\ x.doc.parentId = Null
              siblings == SelectSeq(displayItems(hooks.items.data, app), isSibling)
              placeholder ==
                [id |-> tempId(c),
                 doc |-> [Item(listId, Null, <<>>, Len(siblings)) EXCEPT !.clientId = c]]
          IN /\ calls' = Append(calls, [op |-> "createRootItem", clientId |-> c,
                                        listId |-> listId, committed |-> FALSE])
             /\ Render(hooks, [app EXCEPT !.optimisticItemsAdd = Append(@, placeholder),
                                          !.clientIds = c])
  /\ UNCHANGED <<items, lists, maxDepth>>

\* addChild of a displayed task of the store, up to its await.
AddChildItem ==
  /\ RoomForCall /\ RoomForItem /\ app.clientIds < MaxClientIds
  /\ \E parentId \in ItemIds :
       /\ hasEntry(displayItems(hooks.items.data, app), parentId)
       /\ LET c == app.clientIds + 1
              parent == findEntry(displayItems(hooks.items.data, app), parentId)
              isChild(x) == x.doc.listId = parent.doc.listId /\ x.doc.parentId = parent.id
              children == SelectSeq(displayItems(hooks.items.data, app), isChild)
              placeholder ==
                [id |-> tempId(c),
                 doc |-> [Item(parent.doc.listId, parent.id,
                               Append(parent.doc.path, parent.id), Len(children))
                            EXCEPT !.clientId = c]]
          IN /\ calls' = Append(calls, [op |-> "createChildItem", clientId |-> c,
                                        parentId |-> parentId,
                                        maxDepth |-> hooks.callbacks.maxDepth,
                                        committed |-> FALSE])
             /\ Render(hooks, [app EXCEPT !.optimisticItemsAdd = Append(@, placeholder),
                                          !.clientIds = c])
  /\ UNCHANGED <<items, lists, maxDepth>>

\* deleteItem of a displayed task of the store.
DeleteItem ==
  /\ RoomForCall
  /\ \E itemId \in ItemIds :
       /\ hasEntry(displayItems(hooks.items.data, app), itemId)
       /\ calls' = Append(calls, [op |-> "deleteItemSubtree", itemId |-> itemId,
                                  committed |-> FALSE])
       /\ Render(hooks, [app EXCEPT !.optimisticItemsDelete = @ \cup {itemId}])
  /\ UNCHANGED <<items, lists, maxDepth>>

\* onDragEnd, a reparent intent: setOptimisticItemChange, then
\* moveItemToContainer, which returns when the hook's items hold no such task.
dropReparent(itemId, targetListId, targetParentId, insertIndex) ==
  /\ calls' =
       IF hasEntry(itemsArray(hooks.items.data), itemId)
       THEN Append(calls, [op |-> "reparentSubtree", itemId |-> itemId,
                           targetListId |-> targetListId,
                           targetParentId |-> targetParentId,
                           insertIndex |-> insertIndex,
                           maxDepth |-> hooks.callbacks.maxDepth,
                           committed |-> FALSE])
       ELSE calls
  /\ Render(hooks, [app EXCEPT !.optimisticItemChange =
                      [type |-> "reparent", itemId |-> itemId,
                       targetListId |-> targetListId,
                       targetParentId |-> targetParentId,
                       insertIndex |-> insertIndex]])

\* onDragEnd, a reorder intent.
dropReorder(listId, parentId, orderedIds) ==
  /\ calls' = Append(calls, [op |-> "reorderSiblings", orderedIds |-> orderedIds,
                             committed |-> FALSE])
  /\ Render(hooks, [app EXCEPT !.optimisticItemChange =
                      [type |-> "reorder", listId |-> listId, parentId |-> parentId,
                       orderedIds |-> orderedIds]])

\* The containers the page shows: the root of every displayed list of the
\* store and the children of every displayed task that has some.
containers(shownLists, shown) ==
  {<<l, Null>> : l \in {m \in ListIds : hasEntry(shownLists, m)}}
  \cup
  {<<shown[i].doc.listId, shown[i].id>> :
     i \in {k \in 1..Len(shown) :
              \E j \in 1..Len(shown) : shown[j].doc.listId = shown[k].doc.listId
                                        /\ shown[j].doc.parentId = shown[k].id}}

\* onDragEnd of a dragged item, dropped on the drop zone of a container
\* (no index) or on the slot at its start (index 0).
DragEndOnContainer ==
  /\ RoomForCall
  /\ LET shown == displayItems(hooks.items.data, app)
     IN \E a \in 1..Len(shown), c \in containers(displayLists(hooks.lists.data, app), shown) :
          \E index \in {Undefined, 0} :
            dropReparent(shown[a].id, c[1], c[2], index)
  /\ UNCHANGED <<items, lists, maxDepth>>

\* onDragEnd of a dragged item, dropped over another item.
DragEndOnItem ==
  /\ RoomForCall
  /\ LET shown == displayItems(hooks.items.data, app)
     IN \E a, o \in 1..Len(shown) :
          LET activeParent == shown[a].doc.parentId
              targetParent == shown[o].doc.parentId
              listId == shown[a].doc.listId
              inActive(x) == x.doc.listId = listId /\ x.doc.parentId = activeParent
              inTarget(x) == x.doc.listId = listId /\ x.doc.parentId = targetParent
              siblings == idsOf(sortEntries(SelectSeq(shown, inActive)))
              targetSiblings == idsOf(sortEntries(SelectSeq(shown, inTarget)))
              oldIndex == IndexOf(siblings, shown[a].id)
              newIndex == IndexOf(siblings, shown[o].id)
              insertIndex == IndexOf(targetSiblings, shown[o].id)
          IN IF activeParent = targetParent
             THEN /\ oldIndex # -1 /\ newIndex # -1 /\ oldIndex # newIndex
                  /\ dropReorder(listId, activeParent, arrayMove(siblings, oldIndex, newIndex))
             ELSE dropReparent(shown[a].id, listId, targetParent,
                               IF insertIndex < 0 THEN Undefined ELSE insertIndex)
  /\ UNCHANGED <<items, lists, maxDepth>>

\* batch.update of a document that does not exist fails the commit.
reorderSiblingsOutcome(st, orderedIds) ==
  IF \A i \in 1..Len(orderedIds) : orderedIds[i] \in Docs(st)
  THEN reorderSiblingsResult(st, orderedIds)
  ELSE st

\* The collections a call leaves when it commits.
callItems(c, id) ==
  IF c.op = "createRootItem"
    THEN [items EXCEPT ![id] = [createRootItemDoc(items, c.listId) EXCEPT !.clientId = c.clientId]]
  ELSE IF c.op = "createChildItem"
    THEN IF createChildItemAccepted(items, c.parentId, c.maxDepth)
         THEN [items EXCEPT ![id] =
                 [createChildItemDoc(items, c.parentId) EXCEPT !.clientId = c.clientId]]
         ELSE items
  ELSE IF c.op = "deleteItemSubtree" THEN deleteItemSubtreeOutcome(items, c.itemId)
  ELSE IF c.op = "reorderSiblings" THEN reorderSiblingsOutcome(items, c.orderedIds)
  ELSE IF c.op = "reparentSubtree"
    THEN reparentOutcome(items, c.itemId, c.targetListId, c.targetParentId,
                         c.insertIndex, c.maxDepth)
  ELSE items

callLists(c, id) ==
  IF c.op = "createList"
  THEN [lists EXCEPT ![id] = [List(c.order) EXCEPT !.clientId = c.clientId]]
  ELSE lists

\* The handlers await the creating calls and run their finally block after.
awaited == {"createList", "createRootItem", "createChildItem"}

removeAt(s, i) == SubSeq(s, 1, i - 1) \o SubSeq(s, i + 1, Len(s))

\* createList and reorderSiblings write without a read before: the write is
\* queued when the call is made, before the write of any later call.
writesAtOnce == {"createList", "reorderSiblings"}

\* A call in flight reads the store and commits (or returns without).
AppCommit ==
  /\ \E i \in 1..Len(calls) :
       /\ ~ calls[i].committed
       /\ \A j \in 1..(i - 1) : calls[j].committed \/ calls[j].op \notin writesAtOnce
       /\ \E id \in (IF calls[i].op = "createList" THEN FirstNewListId(lists, items)
                     ELSE IF calls[i].op \in awaited THEN AppNewId ELSE {Null}) :
            /\ items' = callItems(calls[i], id)
            /\ lists' = callLists(calls[i], id)
       /\ PathCap(items')
       /\ hooks' = [hooks EXCEPT !.items = changed(@, items, items'),
                                 !.lists = changed(@, lists, lists')]
       /\ calls' = IF calls[i].op \in awaited
                   THEN [calls EXCEPT ![i].committed = TRUE]
                   ELSE removeAt(calls, i)
  /\ UNCHANGED <<maxDepth, app>>

\* An awaited call returns: the finally block of addList, addRootItem or
\* addChild removes the placeholder.
AppReturn ==
  /\ \E i \in 1..Len(calls) :
       /\ calls[i].committed
       /\ LET isOther(x) == x.doc.clientId # calls[i].clientId
          IN Render(hooks,
                    IF calls[i].op = "createList"
                    THEN [app EXCEPT !.optimisticListsAdd = SelectSeq(@, isOther)]
                    ELSE [app EXCEPT !.optimisticItemsAdd = SelectSeq(@, isOther)])
       /\ calls' = removeAt(calls, i)
  /\ UNCHANGED <<items, lists, maxDepth>>

\* The feed delivers the snapshot that is due.
AppSnapshotItems ==
  /\ app.mounted
  /\ \E i \in 1..Len(hooks.items.subs) :
       /\ hooks.items.subs[i].pending
       /\ Render([hooks EXCEPT !.items = deliver(@, i, items)], app)
  /\ UNCHANGED <<items, lists, maxDepth, calls>>

AppSnapshotLists ==
  /\ app.mounted
  /\ \E i \in 1..Len(hooks.lists.subs) :
       /\ hooks.lists.subs[i].pending
       /\ Render([hooks EXCEPT !.lists = deliver(@, i, lists)], app)
  /\ UNCHANGED <<items, lists, maxDepth, calls>>

\* The reconciliation effect of the item change: whether it clears it.
itemChangeConfirmed(st, ch) ==
  IF ch.type = "reorder"
  THEN LET inGroup(x) == x.doc.listId = ch.listId /\ x.doc.parentId = ch.parentId
       IN idsOf(sortEntries(SelectSeq(itemsArray(st), inGroup))) = ch.orderedIds
  ELSE IF ch.type = "reparent"
  THEN /\ ch.itemId \in Docs(st)
       /\ st[ch.itemId].listId = ch.targetListId
       /\ st[ch.itemId].parentId = ch.targetParentId
  ELSE FALSE

ReconcileItemChange ==
  /\ app.mounted
  /\ itemChangeConfirmed(hooks.items.data, app.optimisticItemChange)
  /\ Render(hooks, [app EXCEPT !.optimisticItemChange = [type |-> "null"]])
  /\ UNCHANGED <<items, lists, maxDepth, calls>>

\* The reconciliation effect of the list creates: the placeholders that stay.
listCreatesRemaining(ls, adds) ==
  LET clientIds == {ls[l].clientId : l \in ListDocs(ls)} \ {Null}
      stays(x) == x.doc.clientId = Null \/ x.doc.clientId \notin clientIds
  IN SelectSeq(adds, stays)

ReconcileListCreates ==
  /\ app.mounted
  /\ Len(listCreatesRemaining(hooks.lists.data, app.optimisticListsAdd))
       # Len(app.optimisticListsAdd)
  /\ Render(hooks, [app EXCEPT !.optimisticListsAdd =
                      listCreatesRemaining(hooks.lists.data, @)])
  /\ UNCHANGED <<items, lists, maxDepth, calls>>

NextApp ==
  \/ AddList
  \/ AddRootItem
  \/ AddChildItem
  \/ DeleteItem
  \/ DragEndOnContainer
  \/ DragEndOnItem
  \/ AppCommit
  \/ AppReturn
  \/ AppSnapshotItems
  \/ AppSnapshotLists
  \/ ReconcileItemChange
  \/ ReconcileListCreates

SpecApp == InitApp /\ [][NextApp]_vars

----
(***************************************************************************)
(* The claims.  A claim about what one call does is stated over every call *)
(* that can be made in a reachable store: the store the call leaves is the *)
(* call's outcome operator applied to the current store.                   *)
(***************************************************************************)

\* The maxDepth values a call can carry: the App's input clamps to 1..12.
DepthInputs == 1..12

\* The sibling groups a store can hold.
Groups == ListIds \X (ItemIds \cup {Null})

\* A sibling group's orders are exactly 0..n-1, each once.
DenseGroup(st, l, p) ==
  LET g == SiblingDocs(st, l, p)
  IN /\ \A d \in g : st[d].order \in 0..(Cardinality(g) - 1)
     /\ \A d, e \in g : d # e => st[d].order # st[e].order

\* The members of S keep in store `new` the relative order they have in `old`.
SameRelativeOrder(old, new, S) ==
  \A d, e \in S : old[d].order < old[e].order => new[d].order < new[e].order

\* Subtree height as computeSubtreeHeight's contract defines it: 1 for a task
\* without children, 2 for a task with one level of children, and so on.
SubtreeHeight(st, r) ==
  1 + SetMax({0} \cup {Len(st[d].path) - IndexOf(st[d].path, r) : d \in DescDocs(st, r)})

\* C1: in every reachable store no task's path contains the task's own id.
C1_Acyclic ==
  \A d \in Docs(items) : ~ Contains(items[d].path, d)

\* C2: reparentSubtree(R, L, P) with P = R or P a task whose path contains R
\* leaves the store as it was, for every such P and every maxDepth.
C2_CycleTargetRejected ==
  \A r \in Docs(items), l \in ListIds, p \in Docs(items), i \in InsertIndexes, md \in DepthInputs :
    (p = r \/ Contains(items[p].path, r))
      => reparentOutcome(items, r, l, p, i, md) = items

\* C3: after every committed task operation every sibling group of size n
\* has the orders 0..n-1, without gap or duplicate.
C3_Density ==
  \A g \in Groups : DenseGroup(items, g[1], g[2])

\* C4: every task with a parent has an existing parent P and the path
\* P.path followed by P.id; every task without a parent has the empty path.
C4_PathConsistency ==
  \A d \in Docs(items) :
    IF items[d].parentId = Null
    THEN items[d].path = <<>>
    ELSE /\ items[d].parentId \in Docs(items)
         /\ items[d].path = Append(items[items[d].parentId].path, items[d].parentId)

\* C5: with maxDepth constant, every task has path.length + 1 <= maxDepth.
C5_DepthBound ==
  \A d \in Docs(items) : Len(items[d].path) + 1 <= maxDepth

\* C6: reparentSubtree(R, L, P) writes nothing when
\* newDepth(R) + (subtreeHeight(R) - 1) > maxDepth, with newDepth(R) =
\* P.path.length + 2 for a task P and 1 for the top level.
C6_DepthGuard ==
  \A r \in Docs(items), l \in ListIds, p \in Docs(items) \cup {Null},
     i \in InsertIndexes, md \in DepthInputs :
    LET newDepth == IF p = Null THEN 1 ELSE Len(items[p].path) + 2
    IN newDepth + (SubtreeHeight(items, r) - 1) > md
         => reparentOutcome(items, r, l, p, i, md) = items

\* insertIndex clamped to [0, k], or k when it is omitted.
Clamped(i, k) == IF i = Undefined THEN k ELSE Min(Max(i, 0), k)

\* C7: after a successful reparentSubtree(R, L, P), R has listId L, parentId
\* P and the path P.path followed by P.id (empty for the top level); every
\* task D whose old path contained R has listId L and the path: R's new
\* path, R, the part of D's old path after R; the parentId and order of
\* every such D are unchanged and no task is created or deleted.
C7_ReparentRewrite ==
  \A r \in Docs(items), l \in ListIds, p \in Docs(items) \cup {Null},
     i \in InsertIndexes, md \in DepthInputs :
    reparentAccepted(items, r, p, md) =>
      LET new == reparentOutcome(items, r, l, p, i, md)
      IN /\ new[r].listId = l
         /\ new[r].parentId = p
         /\ new[r].path = IF p = Null THEN <<>> ELSE Append(items[p].path, p)
         /\ \A d \in DescDocs(items, r) :
              /\ new[d].listId = l
              /\ new[d].path =
                   new[r].path \o <<r>> \o SliceFrom(items[d].path, IndexOf(items[d].path, r) + 1)
              /\ new[d].parentId = items[d].parentId
              /\ new[d].order = items[d].order
         /\ Docs(new) = Docs(items)

\* C8: after a successful reparentSubtree of R into another sibling group
\* with insertIndex i, R's order is i clamped to [0, k], k the number of
\* tasks already in the target group (k when i is omitted), and those tasks
\* keep their relative order around R.
C8_InsertAtIndex ==
  \A r \in Docs(items), l \in ListIds, p \in Docs(items) \cup {Null},
     i \in InsertIndexes, md \in DepthInputs :
    (/\ reparentAccepted(items, r, p, md)
     /\ <<l, p>> # <<items[r].listId, items[r].parentId>>) =>
      LET new == reparentOutcome(items, r, l, p, i, md)
          target == SiblingDocs(items, l, p)
      IN /\ new[r].order = Clamped(i, Cardinality(target))
         /\ SameRelativeOrder(items, new, target)
         /\ \A d \in target : new[d].order # new[r].order

\* C9: after a successful reparentSubtree that moves R into another sibling
\* group, the tasks left in R's old group have the orders 0..m-1 in their
\* previous relative order.
C9_SourceGapClosed ==
  \A r \in Docs(items), l \in ListIds, p \in Docs(items) \cup {Null},
     i \in InsertIndexes, md \in DepthInputs :
    (/\ reparentAccepted(items, r, p, md)
     /\ <<l, p>> # <<items[r].listId, items[r].parentId>>) =>
      LET new == reparentOutcome(items, r, l, p, i, md)
          rest == SiblingDocs(items, items[r].listId, items[r].parentId) \ {r}
      IN /\ \A d \in rest : new[d].order \in 0..(Cardinality(rest) - 1)
         /\ \A d, e \in rest : d # e => new[d].order # new[e].order
         /\ SameRelativeOrder(items, new, rest)

\* C10: reparentSubtree of R with R's own list and parent as the target and
\* insertIndex i leaves the group's orders 0..n-1 and R's order equal to i
\* clamped to [0, n-1].
C10_SameGroupMove ==
  \A r \in Docs(items), i \in InsertIndexes \ {Undefined}, md \in DepthInputs :
    LET l == items[r].listId
        p == items[r].parentId
        n == Cardinality(SiblingDocs(items, l, p))
    IN (p \in Docs(items) \cup {Null} /\ reparentAccepted(items, r, p, md)) =>
         LET new == reparentOutcome(items, r, l, p, i, md)
         IN /\ DenseGroup(new, l, p)
            /\ new[r].order = Clamped(i, n - 1)

\* C11: deleteItemSubtree(id) on an existing task removes exactly that task
\* and every task whose path contains id, gives the remaining tasks of the
\* deleted task's sibling group the orders 0..n-1 in their previous relative
\* order, and changes no other task.
C11_DeleteSubtree ==
  \A id \in Docs(items) :
    LET new == deleteItemSubtreeOutcome(items, id)
        gone == DescDocs(items, id) \cup {id}
        rest == SiblingDocs(items, items[id].listId, items[id].parentId) \ gone
    IN /\ Docs(new) = Docs(items) \ gone
       /\ \A d \in rest : new[d].order \in 0..(Cardinality(rest) - 1)
       /\ \A d, e \in rest : d # e => new[d].order # new[e].order
       /\ SameRelativeOrder(items, new, rest)
       /\ \A d \in rest : new[d] = [items[d] EXCEPT !.order = new[d].order]
       /\ \A d \in Docs(items) \ (gone \cup rest) : new[d] = items[d]

\* C12: deleteList(L) removes the list L and exactly the tasks whose listId
\* is L; every other list and every task of every other list is unchanged.
C12_DeleteListFrame ==
  \A l \in ListIds :
    LET newLists == deleteListLists(lists, l)
        newItems == deleteListResult(items, l)
    IN /\ ~ newLists[l].exists
       /\ \A k \in ListIds \ {l} : newLists[k] = lists[k]
       /\ Docs(newItems) = {d \in Docs(items) : items[d].listId # l}
       /\ \A d \in Docs(newItems) : newItems[d] = items[d]

\* C12 happens: a list that holds tasks is deleted while another list holds
\* tasks too.
C12_Witness ==
  \E l \in ListDocs(lists), k \in ListDocs(lists) :
    /\ k # l
    /\ ListItemDocs(items, l) # {}
    /\ ListItemDocs(items, k) # {}
    /\ Docs(deleteListResult(items, l)) = ListItemDocs(items, k)

\* C13: createChildItem on a parent whose depth (path.length + 1) is maxDepth
\* or more returns null and leaves the store unchanged.
C13_ChildAtMaxDepthRejected ==
  \A p \in Docs(items), id \in NewIds(items), md \in DepthInputs :
    Len(items[p].path) + 1 >= md =>
      /\ createChildItemReturns(items, id, p, md) = Null
      /\ createChildItemOutcome(items, id, p, md) = items

\* C13 happens: a task sits at the maximum depth of the run and a child of it
\* can be asked for.
C13_Witness ==
  \E p \in Docs(items) :
    /\ Len(items[p].path) + 1 = maxDepth
    /\ NewIds(items) # {}
    /\ ~ createChildItemAccepted(items, p, maxDepth)

\* The children of a task: the tasks whose parentId names it.
Children(st, p) == {d \in Docs(st) : st[d].parentId = p}

\* C14: a successful createChildItem under parent P inserts exactly one task,
\* with parentId P.id, listId P.listId, the path P.path followed by P.id,
\* completed and collapsed false and order equal to the number of P's
\* children before the insertion; no existing task is modified.
C14_ChildCreated ==
  \A p \in Docs(items), id \in NewIds(items), md \in DepthInputs :
    createChildItemAccepted(items, p, md) =>
      LET new == createChildItemOutcome(items, id, p, md)
      IN /\ Docs(new) = Docs(items) \cup {id}
         /\ new[id].parentId = p
         /\ new[id].listId = items[p].listId
         /\ new[id].path = Append(items[p].path, p)
         /\ new[id].completed = FALSE
         /\ new[id].collapsed = FALSE
         /\ new[id].order = Cardinality(Children(items, p))
         /\ \A d \in Docs(items) : new[d] = items[d]

\* C15: createRootItem(listId) inserts exactly one task, with parentId null,
\* the empty path and order equal to the number of top-level tasks of that
\* list before the insertion, and modifies no existing task.
C15_RootCreated ==
  \A l \in ListIds, id \in NewIds(items) :
    LET new == createRootItemOutcome(items, id, l)
    IN /\ Docs(new) = Docs(items) \cup {id}
       /\ new[id].listId = l
       /\ new[id].parentId = Null
       /\ new[id].path = <<>>
       /\ new[id].order =
            Cardinality({d \in Docs(items) : items[d].listId = l /\ items[d].parentId = Null})
       /\ \A d \in Docs(items) : new[d] = items[d]

\* C15 happens: a root task can be added to a list that holds a top-level
\* task and a task below it.
C15_Witness ==
  \E l \in ListIds, id \in NewIds(items), d, e \in Docs(items) :
    /\ items[d].listId = l /\ items[e].listId = l
    /\ items[d].parentId = Null
    /\ items[e].parentId = d
    /\ createRootItemOutcome(items, id, l)[id].order = 1

\* The orderedIds a caller can pass: existing tasks, each named once.
OrderedIdsOf(st) == UNION {Perms(T) : T \in SUBSET Docs(st)}

\* C16: reorderSiblings(listId, parentId, orderedIds) sets the order of each
\* task named in orderedIds to its index in orderedIds and changes no other
\* field and no other task; when orderedIds is a permutation of the current
\* sibling group, the group's orders are 0..n-1 afterwards.
C16_ReorderSiblings ==
  /\ \A orderedIds \in OrderedIdsOf(items) :
       LET new == reorderSiblingsResult(items, orderedIds)
       IN /\ \A i \in 1..Len(orderedIds) :
               new[orderedIds[i]] = [items[orderedIds[i]] EXCEPT !.order = i - 1]
          /\ \A d \in ItemIds : ~ InSeq(orderedIds, d) => new[d] = items[d]
  /\ \A g \in Groups :
       \A orderedIds \in Perms(SiblingDocs(items, g[1], g[2])) :
         DenseGroup(reorderSiblingsResult(items, orderedIds), g[1], g[2])

\* C16 happens: a sibling group of three tasks can be reordered by a call
\* that changes the store.
C16_Witness ==
  \E g \in Groups :
    /\ Cardinality(SiblingDocs(items, g[1], g[2])) = 3
    /\ \E orderedIds \in Perms(SiblingDocs(items, g[1], g[2])) :
         reorderSiblingsResult(items, orderedIds) # items

\* C17: createChildItem, toggleComplete, toggleCollapse, deleteItemSubtree
\* and reparentSubtree called with a task id (parent, root task or target
\* parent) that does not exist complete without an error and leave the store
\* unchanged.
C17_MissingIdNoOp ==
  \A x \in ItemIds \ Docs(items) :
    /\ \A id \in ItemIds \ Docs(items), md \in DepthInputs :
         /\ createChildItemOutcome(items, id, x, md) = items
         /\ createChildItemReturns(items, id, x, md) = Null
    /\ toggleCompleteOutcome(items, x) = items
    /\ toggleCollapseOutcome(items, x) = items
    /\ deleteItemSubtreeOutcome(items, x) = items
    /\ ~ deleteItemSubtreeRaises(items, x)
    /\ \A l \in ListIds, i \in InsertIndexes, md \in DepthInputs :
         /\ \A p \in ItemIds \cup {Null} : reparentOutcome(items, x, l, p, i, md) = items
         /\ \A r \in Docs(items) : reparentOutcome(items, r, l, x, i, md) = items

\* C17 happens: an id names no task while a task still refers to it, and
\* another task could be moved under it.
C17_Witness ==
  \E x \in ItemIds \ Docs(items), d, r \in Docs(items) :
    /\ items[d].parentId = x
    /\ r # d
    /\ \E l \in ListIds : reparentOutcome(items, r, l, Null, Undefined, maxDepth) # items

\* C18: after any sequence of the hook's createList, deleteList and
\* reorderLists calls (reorderLists given a permutation of the current lists,
\* each call made after the previous one's snapshot was delivered), the
\* order values of the lists are exactly 0..n-1, without ties.
C18_ListDensity ==
  /\ \A l \in ListDocs(lists) : lists[l].order \in 0..(Cardinality(ListDocs(lists)) - 1)
  /\ \A l, k \in ListDocs(lists) : l # k => lists[l].order # lists[k].order

\* C19: in every state reachable by sequential calls of the list and task
\* operations, every task's listId names a list that exists.
C19_TasksInExistingLists ==
  \A d \in Docs(items) : items[d].listId \in ListDocs(lists)

\* Every task's listId names a list that exists.
InExistingLists(st, ls) == \A d \in Docs(st) : st[d].listId \in ListDocs(ls)

\* C19, with the condition it needs: from every reachable store in which
\* every task's listId names an existing list, every list operation and
\* every task operation that names an existing list (createRootItem and
\* reparentSubtree take a list id) leaves a store in which every task's
\* listId names an existing list.
C19_ExistingListsPreserved ==
  InExistingLists(items, lists) =>
    /\ \A l \in ListDocs(lists), id \in NewIds(items) :
         InExistingLists(createRootItemOutcome(items, id, l), lists)
    /\ \A p \in ItemIds, id \in NewIds(items) :
         InExistingLists(createChildItemOutcome(items, id, p, maxDepth), lists)
    /\ \A id \in ItemIds : InExistingLists(deleteItemSubtreeOutcome(items, id), lists)
    /\ \A g \in Groups :
         \A orderedIds \in Perms(SiblingDocs(items, g[1], g[2])) :
           InExistingLists(reorderSiblingsResult(items, orderedIds), lists)
    /\ \A id \in ItemIds, l \in ListDocs(lists), p \in ItemIds \cup {Null},
          i \in InsertIndexes :
         InExistingLists(reparentOutcome(items, id, l, p, i, maxDepth), lists)
    /\ \A l \in ListIds :
         InExistingLists(deleteListResult(items, l), deleteListLists(lists, l))
    /\ \A id \in NewListIds(lists, items) :
         InExistingLists(items, createListResult(lists, id, createListOrder(lists)))
    /\ \A orderedIds \in Perms(ListDocs(lists)) :
         InExistingLists(items, reorderListsResult(lists, orderedIds))

\* C19 happens: two lists exist, every task is in an existing list, a task
\* with a child is in one of them and that list can be deleted.
C19_Witness ==
  \E l, k \in ListDocs(lists), d, e \in Docs(items) :
    /\ l # k
    /\ InExistingLists(items, lists)
    /\ items[d].listId = l
    /\ items[e].parentId = d
    /\ deleteListResult(items, l) # items

\* The stores <<items, lists>> that one call made with user id u can leave:
\* every service operation with every input.
UserCallOutcomes(u) ==
  LET st == userSubcollectionRef(items, u)
      ls == userSubcollectionRef(lists, u)
  IN    {<<commitTo(items, u, createRootItemOutcome(st, id, l)), lists>> :
            id \in NewIds(st), l \in ListIds}
   \cup {<<commitTo(items, u, createChildItemOutcome(st, id, p, maxDepth)), lists>> :
            id \in NewIds(st), p \in ItemIds}
   \cup {<<commitTo(items, u, toggleCompleteOutcome(st, id)), lists>> : id \in ItemIds}
   \cup {<<commitTo(items, u, toggleCollapseOutcome(st, id)), lists>> : id \in ItemIds}
   \cup {<<commitTo(items, u, deleteItemSubtreeOutcome(st, id)), lists>> : id \in ItemIds}
   \cup UNION {{<<commitTo(items, u, reorderSiblingsResult(st, orderedIds)), lists>> :
                  orderedIds \in Perms(SiblingDocs(st, l, p))} :
                l \in ListIds, p \in ItemIds \cup {Null}}
   \cup UNION {{<<commitTo(items, u, reparentOutcome(st, id, l, p, i, maxDepth)), lists>> :
                  p \in ItemIds \cup {Null}, i \in InsertIndexes} :
                id \in ItemIds, l \in ListIds}
   \cup {<<items, commitTo(lists, u, createListResult(ls, id, createListOrder(ls)))>> :
            id \in NewListIds(ls, st)}
   \cup {<<commitTo(items, u, deleteListResult(st, l)),
           commitTo(lists, u, deleteListLists(ls, l))>> : l \in ListIds}
   \cup {<<items, commitTo(lists, u, reorderListsResult(ls, orderedIds))>> :
            orderedIds \in Perms(ListDocs(ls))}

\* C20: a call made with user id A writes only below A's user document: for
\* two users A # B, every operation of A leaves B's tasks and lists as they
\* were and B's feeds deliver the same snapshots, and B's snapshots are the
\* same whatever A's partition holds.
C20_UserPartition ==
  \A u, v \in Users :
    u # v =>
      /\ \A o \in UserCallOutcomes(u) :
           /\ o[1][v] = items[v]
           /\ o[2][v] = lists[v]
           /\ subscribeItems(o[1], v) = subscribeItems(items, v)
           /\ subscribeLists(o[2], v) = subscribeLists(lists, v)
      /\ \A w \in Users :
           /\ subscribeItems([items EXCEPT ![u] = items[w]], v) = items[v]
           /\ subscribeLists([lists EXCEPT ![u] = lists[w]], v) = lists[v]

\* C20 witness: two users both hold a document, their partitions differ, and
\* a call of one of them changes the caller's own tasks.
C20_Witness ==
  \E u, v \in Users :
    /\ u # v
    /\ \E d \in ItemIds : items[v][d].exists
    /\ items[u] # items[v]
    /\ \E o \in UserCallOutcomes(u) : o[1][u] # items[u]

\* C29: toggleComplete on an existing task inverts its completed field and
\* toggleCollapse its collapsed field; the task's other fields and every
\* other task stay as they were, and a second toggle of the same field
\* restores the store.
C29_ToggleInverts ==
  \A id \in Docs(items) :
    LET c == toggleCompleteOutcome(items, id)
        k == toggleCollapseOutcome(items, id)
        same(a, b) ==
          /\ a.exists = b.exists /\ a.listId = b.listId /\ a.parentId = b.parentId
          /\ a.path = b.path /\ a.order = b.order
    IN /\ c[id].completed = ~ items[id].completed
       /\ c[id].collapsed = items[id].collapsed
       /\ k[id].collapsed = ~ items[id].collapsed
       /\ k[id].completed = items[id].completed
       /\ same(c[id], items[id]) /\ same(k[id], items[id])
       /\ \A e \in ItemIds \ {id} : c[e] = items[e] /\ k[e] = items[e]
       /\ toggleCompleteOutcome(c, id) = items
       /\ toggleCollapseOutcome(k, id) = items

\* C29 witness: a completed, expanded child below a collapsed, open parent:
\* both toggles have acted and can act again.
C29_Witness ==
  \E d, e \in Docs(items) :
    /\ items[d].parentId = e
    /\ items[d].completed /\ ~ items[d].collapsed
    /\ items[e].collapsed /\ ~ items[e].completed

\* C30: outdent of a task T with parent P, when reparentSubtree commits,
\* leaves T in P's list with P's parent as its parent and P's order + 1 as
\* its order.
C30_Outdent ==
  \A t \in Docs(items) :
    (/\ outdentCalls(items, t)
     /\ reparentAccepted(items, t, items[items[t].parentId].parentId, maxDepth)) =>
      LET p == items[t].parentId
          new == outdentOutcome(items, t, maxDepth)
      IN /\ new[t].parentId = items[p].parentId
         /\ new[t].listId = new[p].listId
         /\ new[t].order = new[p].order + 1

\* The commits every service call would issue in the current store, for every
\* operation and every input.
AllCallCommits ==
  LET st == items
      ls == lists
  IN    {createRootItemCommits(st, ls, id, l) : id \in NewIds(st), l \in ListIds}
   \cup {createChildItemCommits(st, ls, id, p, maxDepth) : id \in NewIds(st), p \in ItemIds}
   \cup {toggleCompleteCommits(st, ls, id) : id \in ItemIds}
   \cup {toggleCollapseCommits(st, ls, id) : id \in ItemIds}
   \cup {deleteItemSubtreeCommitSeq(st, ls, id) : id \in ItemIds}
   \cup UNION {{reorderSiblingsCommits(st, ls, orderedIds) :
                  orderedIds \in Perms(SiblingDocs(st, l, p))} :
                l \in ListIds, p \in ItemIds \cup {Null}}
   \cup UNION {{reparentCommits(st, ls, id, l, p, i, maxDepth) :
                  p \in ItemIds \cup {Null}, i \in InsertIndexes} :
                id \in ItemIds, l \in ListIds}
   \cup {createListCommits(st, ls, id, createListOrder(ls)) : id \in NewListIds(ls, st)}
   \cup {deleteListCommits(st, ls, l) : l \in ListIds}
   \cup {reorderListsCommits(st, ls, orderedIds) : orderedIds \in Perms(ListDocs(ls))}

\* C28: every mutation operation issues its writes in one commit: no call
\* issues more than one, and while a call is in flight the store holds none
\* of its writes (it is the store the call's reads saw), so no state holds
\* only a part of them.
C28_SingleCommit ==
  /\ \A commits \in AllCallCommits : Len(commits) <= 1
  /\ calls # <<>> =>
       /\ calls[1].done = 0
       /\ <<items, lists>> = calls[1].before

\* C28 witness: a call in flight whose one commit rewrites two tasks (a moved
\* root and its descendant, or a deleted subtree) or writes to both
\* collections (a deleteList with the list and a task of it).
C28_Witness ==
  /\ calls # <<>>
  /\ LET after == calls[1].commits[1]
     IN \/ Cardinality({d \in ItemIds : after[1][d] # items[d]}) >= 2
        \/ /\ after[2] # lists
           /\ after[1] # items

\* C24: a change of maxDepth writes nothing to the store and starts no call,
\* so no task is deleted or moved, whatever its depth; after it the
\* createChildItem and reparentSubtree callbacks carry the new value: a child
\* is created exactly below the parents whose depth is under it.
C24_MaxDepthFrame ==
  [][/\ maxDepth' # maxDepth =>
          /\ items' = items /\ lists' = lists /\ calls' = calls
     /\ hooks'.callbacks.maxDepth = maxDepth'
     /\ \A p \in ItemIds, id \in NewIds(items') :
          useItemsCreateChildItem(hooks', items', id, p) # items'
             <=> (items'[p].exists /\ Len(items'[p].path) + 2 <= maxDepth')]_vars

\* C24 witness: maxDepth was lowered to 1 while a task of depth 2 exists; the
\* task is still there and the callbacks carry 1.
C24_Witness ==
  /\ maxDepth = 1
  /\ hooks.callbacks.maxDepth = 1
  /\ \E d \in Docs(items) : Len(items[d].path) = 1 /\ items[items[d].parentId].exists

\* The stores <<items, lists>> that one call of an operation of the hooks can
\* leave, for every operation and every input.
HookCallOutcomes ==
  LET st == OwnItems
      ls == OwnLists
      its(new) == <<PutOwn(items, new), lists>>
      lss(new) == <<items, PutOwn(lists, new)>>
  IN    {its(useItemsCreateRootItem(hooks, st, id, l)) : id \in NewIds(st), l \in ListIds}
   \cup {its(useItemsCreateChildItem(hooks, st, id, p)) : id \in NewIds(st), p \in ItemIds}
   \cup {its(useItemsToggleComplete(hooks, st, id)) : id \in ItemIds}
   \cup {its(useItemsToggleCollapse(hooks, st, id)) : id \in ItemIds}
   \cup {its(useItemsDeleteItemSubtree(hooks, st, id)) : id \in ItemIds}
   \cup UNION {{its(useItemsReorderSiblings(hooks, st, orderedIds)) :
                  orderedIds \in Perms(SiblingDocs(st, l, p))} :
                l \in ListIds, p \in ItemIds \cup {Null}}
   \cup UNION {{its(useItemsReparentSubtree(hooks, st, id, l, p, i)) :
                  p \in ItemIds \cup {Null}, i \in InsertIndexes} :
                id \in ItemIds, l \in ListIds}
   \cup {lss(useListsCreateList(hooks, ls, id)) : id \in NewListIds(ls, st)}
   \cup {<<PutOwn(items, useListsDeleteListItems(hooks, st, l)),
           PutOwn(lists, useListsDeleteListLists(hooks, ls, l))>> : l \in ListIds}
   \cup {lss(useListsReorderLists(hooks, ls, orderedIds)) : orderedIds \in Perms(ListDocs(ls))}

\* C21: while the hooks' uid is absent, neither hook holds a subscription and
\* every operation of useLists and useItems issues no store request and
\* leaves the store as it is.
C21_AbsentUid ==
  (hooks.mounted /\ hooks.uid = Null) =>
    /\ hooks.lists.subs = <<>>
    /\ hooks.items.subs = <<>>
    /\ \A op \in DOMAIN serviceRequests : hookRequests(hooks, op) = <<>>
    /\ \A o \in HookCallOutcomes : o = <<items, lists>>

\* C21 witness: the uid is absent after a user was signed in: the database
\* holds a document and the hook still holds that user's last snapshot.
C21_Witness ==
  /\ hooks.mounted
  /\ hooks.uid = Null
  /\ \E u \in Users :
       \/ DbDocs(items) # {} /\ hooks.items.data = items[u] /\ Docs(items[u]) # {}
       \/ DbLists(lists) # {} /\ hooks.lists.data = lists[u] /\ ListDocs(lists[u]) # {}

\* C22: each hook holds at most one subscription, and a step that applies a
\* snapshot to a hook's state (new data, or loading turned off) applies the
\* snapshot that is due for the subscription of the hook's present uid: a
\* subscription cancelled by an unmount or a change of the uid delivers
\* nothing afterwards.
C22_Cancelled ==
  [][/\ hooks'.mounted => Len(hooks'.lists.subs) <= 1 /\ Len(hooks'.items.subs) <= 1
     /\ (hooks.mounted /\ hooks'.mounted) =>
          /\ (hooks'.items.data # hooks.items.data
                \/ (hooks.items.loading /\ ~ hooks'.items.loading)) =>
               \E i \in 1..Len(hooks.items.subs) :
                 /\ hooks.items.subs[i].uid = hooks.uid
                 /\ hooks.items.subs[i].pending
                 /\ hooks'.items.data = items[hooks.uid]
          /\ (hooks'.lists.data # hooks.lists.data
                \/ (hooks.lists.loading /\ ~ hooks'.lists.loading)) =>
               \E i \in 1..Len(hooks.lists.subs) :
                 /\ hooks.lists.subs[i].uid = hooks.uid
                 /\ hooks.lists.subs[i].pending
                 /\ hooks'.lists.data = lists[hooks.uid]]_vars

\* C22 witness: the uid changed from user 1 to user 2 after a snapshot of
\* user 1 was applied: the hook still shows user 1's task, its one
\* subscription is user 2's, whose first snapshot is due.
C22_Witness ==
  /\ hooks.mounted
  /\ hooks.uid = 2
  /\ Docs(items[1]) # {}
  /\ hooks.items.data = items[1]
  /\ hooks.items.subs = <<[uid |-> 2, pending |-> TRUE]>>

\* C23: when the feeds deliver, a hook that is loading for a present uid
\* stops loading, unless its subscription is cancelled first (the uid
\* changes or the hook unmounts).
C23_LoadingEnds ==
  \A u \in Users :
    /\ (hooks.mounted /\ hooks.uid = u /\ hooks.items.loading)
         ~> (~ hooks.mounted \/ hooks.uid # u \/ ~ hooks.items.loading)
    /\ (hooks.mounted /\ hooks.uid = u /\ hooks.lists.loading)
         ~> (~ hooks.mounted \/ hooks.uid # u \/ ~ hooks.lists.loading)

\* C23 witness: a user without lists and tasks: both first snapshots were
\* delivered empty and neither hook is loading.
C23_Witness ==
  /\ hooks.mounted
  /\ hooks.uid \in Users
  /\ Docs(items[hooks.uid]) = {} /\ ListDocs(lists[hooks.uid]) = {}
  /\ ~ hooks.items.loading /\ ~ hooks.lists.loading
  /\ hooks.items.subs = <<[uid |-> hooks.uid, pending |-> FALSE]>>
  /\ hooks.lists.subs = <<[uid |-> hooks.uid, pending |-> FALSE]>>

\* C26: in every displayItems value the App computes, no two entries carry
\* the same clientId; a placeholder whose clientId a task of the snapshot
\* carries is not displayed together with that task.
C26_ItemClientIdsDistinct ==
  LET shown == displayItems(hooks.items.data, app)
  IN \A i, j \in 1..Len(shown) :
       (i # j /\ shown[i].doc.clientId # Null) =>
         shown[i].doc.clientId # shown[j].doc.clientId

\* C26 happens: the snapshot holds the task created for a placeholder that
\* optimisticItemsAdd still holds, and the task is displayed.
C26_Witness ==
  \E i \in 1..Len(app.optimisticItemsAdd), d \in Docs(hooks.items.data) :
    /\ hooks.items.data[d].clientId = app.optimisticItemsAdd[i].doc.clientId
    /\ hasEntry(displayItems(hooks.items.data, app), d)

\* C27: in every displayLists value the App computes, no two entries carry
\* the same clientId, whatever the order of the list snapshot, the return of
\* createList and the reconciliation effect.
C27_ListClientIdsDistinct ==
  LET shown == displayLists(hooks.lists.data, app)
  IN \A i, j \in 1..Len(shown) :
       (i # j /\ shown[i].doc.clientId # Null) =>
         shown[i].doc.clientId # shown[j].doc.clientId

\* Nothing is left to happen without a new event of the user: no call is in
\* flight, no snapshot is due and no reconciliation effect has work to do.
Settled ==
  /\ calls = <<>>
  /\ \A i \in 1..Len(hooks.items.subs) : ~ hooks.items.subs[i].pending
  /\ \A i \in 1..Len(hooks.lists.subs) : ~ hooks.lists.subs[i].pending
  /\ ~ itemChangeConfirmed(hooks.items.data, app.optimisticItemChange)
  /\ Len(listCreatesRemaining(hooks.lists.data, app.optimisticListsAdd))
       = Len(app.optimisticListsAdd)

\* The ids of the dragged entries an optimistic item change names.
draggedIds(ch) ==
  IF ch.type = "reparent" THEN {ch.itemId}
  ELSE IF ch.type = "reorder" THEN {ch.orderedIds[i] : i \in 1..Len(ch.orderedIds)}
  ELSE {}

\* C25: after a drag ended with a reorder or reparent intent, the optimistic
\* item change is cleared in the end and the displayed items are those of
\* the server snapshot, whatever the server operation did: once nothing is
\* left to happen, no optimistic item change remains and displayItems is the
\* snapshot of the store (drags that name a placeholder or a task deleted
\* since are left aside).
C25_ChangeCleared ==
  (Settled /\ draggedIds(app.optimisticItemChange) \subseteq Docs(items)) =>
    /\ app.optimisticItemChange.type = "null"
    /\ displayItems(hooks.items.data, app) = itemsArray(items)

\* C31: indent of a task T makes T the last child of the sibling S just
\* before it (T.parentId = S, T.order = the number of children S had); it
\* does nothing when T is the first of its siblings or when
\* S.path.length + 2 > maxDepth.
C31_Indent ==
  \A t \in Docs(items) :
    LET sibs == getSiblings(items, t)
        idx == PosIn(sibs, t)
        new == indentOutcome(items, t, maxDepth)
    IN IF idx > 0 /\ Len(items[sibs[idx]].path) + 2 <= maxDepth
       THEN /\ new[t].parentId = sibs[idx]
            /\ new[t].order = Cardinality(SiblingDocs(items, items[t].listId, sibs[idx]))
       ELSE new = items

\* The orders of two siblings are exchanged and no other task changes.
OrdersSwapped(old, new, a, b) ==
  /\ new[a] = [old[a] EXCEPT !.order = old[b].order]
  /\ new[b] = [old[b] EXCEPT !.order = old[a].order]
  /\ \A d \in ItemIds \ {a, b} : new[d] = old[d]

\* C32: moveUp (moveDown) of a task swaps the orders of the task and its
\* previous (next) sibling and changes no other sibling's order; on the first
\* (last) sibling it issues no write.
C32_MoveUpDown ==
  \A t \in Docs(items) :
    LET sibs == getSiblings(items, t)
        idx == PosIn(sibs, t)
    IN /\ IF idx > 0
          THEN OrdersSwapped(items, moveUpOutcome(items, t), t, sibs[idx])
          ELSE ~ moveUpCalls(items, t)
       /\ IF idx < Len(sibs) - 1
          THEN OrdersSwapped(items, moveDownOutcome(items, t), t, sibs[idx + 2])
          ELSE ~ moveDownCalls(items, t)

\* C33: computing displayItems never modifies the task objects of the
\* snapshot: the items held by useItems change only when a snapshot is
\* delivered, and are then the tasks of the store; so an optimistic reorder
\* is cleared only when the store holds the order it names.
C33_SnapshotUntouched ==
  [][/\ \/ hooks'.items.data = hooks.items.data
        \/ /\ \E i \in 1..Len(hooks.items.subs) : hooks.items.subs[i].pending
           /\ hooks'.items.data = items
     /\ (app.optimisticItemChange.type = "reorder"
           /\ app'.optimisticItemChange.type = "null") =>
          itemChangeConfirmed(items, app.optimisticItemChange)]_vars

\* The four fields of a task that a move changes.
Placement(d) == <<d.listId, d.parentId, d.path, d.order>>

\* C34: for every accepted move, the optimistic reparent display computed
\* from a snapshot shows every task with the listId, parentId, path and
\* order that the store holds after reparentSubtree with the same arguments
\* has committed on a store equal to the snapshot.
C34_DisplayIsResult ==
  \A r \in Docs(items), l \in ListIds, p \in Docs(items) \cup {Null},
     i \in InsertIndexes :
    reparentAccepted(items, r, p, maxDepth) =>
      LET ch == [type |-> "reparent", itemId |-> r, targetListId |-> l,
                 targetParentId |-> p, insertIndex |-> i]
          shown == displayReparent(itemsArray(items), ch)
          new == reparentOutcome(items, r, l, p, i, maxDepth)
      IN \A d \in Docs(items) :
           Placement(findEntry(shown, d).doc) = Placement(new[d])

----
(***************************************************************************)
(* The service calls of two callers at once.  A call is the sequence of    *)
(* its awaits: each getDoc or getDocs reads the store as it is at that     *)
(* moment, the addDoc or batch.commit() at the end writes to the store as  *)
(* it is then.  Nothing orders the awaits of one call against those of the *)
(* other.                                                                  *)
(***************************************************************************)

\* The number of calls of one behaviour.
MaxRaceCalls == 2

\* The insertIndex arguments of the calls: none, and the first slot.
RaceInsertIndexes == {Undefined, 0}

\* The stores the calls start on, each the result of createRootItem and
\* createChildItem calls made one after the other on the empty store: no
\* task, one root, a root with a child, two roots of one list, two roots of
\* two lists.
RaceStores ==
  LET empty == [d \in ItemIds |-> NoItem]
      root == createRootItemOutcome(empty, 1, 1)
  IN {empty, root,
      createChildItemOutcome(root, 2, 1, MaxDepthSetting),
      createRootItemOutcome(root, 2, 1),
      createRootItemOutcome(root, 2, 2)}

\* A write of a batch: addDoc(col, doc), batch.update(ref, fields) with the
\* fields it names, batch.delete(ref).
addDoc(id, d) == [kind |-> "add", id |-> id, fields |-> {}, doc |-> d]
batchUpdate(id, fields, d) == [kind |-> "update", id |-> id, fields |-> fields, doc |-> d]
batchDelete(id) == [kind |-> "delete", id |-> id, fields |-> {}, doc |-> NoItem]

\* The document after one write.
written(d, w) ==
  IF w.kind = "add" THEN w.doc
  ELSE IF w.kind = "delete" THEN NoItem
  ELSE [d EXCEPT !.listId = IF "listId" \in w.fields THEN w.doc.listId ELSE @,
                 !.parentId = IF "parentId" \in w.fields THEN w.doc.parentId ELSE @,
                 !.path = IF "path" \in w.fields THEN w.doc.path ELSE @,
                 !.order = IF "order" \in w.fields THEN w.doc.order ELSE @]

\* batch.commit(): the writes apply in the order they were added, all or
\* none; an update of a document that does not exist fails the commit.
RECURSIVE batchCommit(_, _)
batchCommit(st, ws) ==
  IF ws = <<>> THEN [ok |-> TRUE, st |-> st]
  ELSE IF Head(ws).kind = "update" /\ ~ st[Head(ws).id].exists
       THEN [ok |-> FALSE, st |-> st]
       ELSE batchCommit([st EXCEPT ![Head(ws).id] = written(@, Head(ws))], Tail(ws))

\* The writes that give each id of a sequence its index as order.
orderWrites(ids) ==
  [i \in 1..Len(ids) |-> batchUpdate(ids[i], {"order"}, [NoItem EXCEPT !.order = i - 1])]

\* The members of a set as a sequence (snap.forEach).
forEach(S) == Ascending(S)

\* The number of awaited reads a call makes before its write.
raceReads(c) ==
  IF c.op = "createRootItem" THEN 1
  ELSE IF c.op = "createChildItem" THEN 2
  ELSE IF c.op = "deleteItemSubtree" THEN 3
  ELSE IF c.op = "deleteList" THEN 1
  ELSE IF c.targetParentId = Null THEN 4 ELSE 7

\* Whether a call returns (or throws) without a write after the reads it has
\* made; seen[k] is the store at its k-th read.
raceReturns(c) ==
  LET n == Len(c.seen) IN
  IF c.op = "createChildItem"
    THEN n = 1 /\ ~ createChildItemAccepted(c.seen[1], c.parentId, c.maxDepth)
  ELSE IF c.op = "deleteItemSubtree"
    THEN n = 1 /\ ~ c.seen[1][c.itemId].exists
  ELSE IF c.op = "reparentSubtree"
    THEN \/ n = 1 /\ ~ c.seen[1][c.itemId].exists
         \/ n = 1 /\ c.targetParentId = c.itemId
         \/ n = 2 /\ c.targetParentId # Null /\ ~ c.seen[2][c.targetParentId].exists
         \/ /\ n = 3 /\ c.targetParentId # Null
            /\ LET root == c.seen[1][c.itemId]
                   targetParent == c.seen[2][c.targetParentId]
                   subtreeHeight == computeSubtreeHeight(c.seen[3], c.itemId, root.listId)
                   newRootDepth == (Len(targetParent.path) + 1) + 1
               IN newRootDepth + (subtreeHeight - 1) > c.maxDepth
         \* (await getDoc(...)).data() of a missing document is undefined
         \/ n = 4 /\ c.targetParentId # Null /\ ~ c.seen[4][c.targetParentId].exists
  ELSE FALSE

\* createRootItem: its addDoc, with the size of the sibling query it read.
raceCreateRootItem(c, id) ==
  <<addDoc(id, createRootItemDoc(c.seen[1], c.listId))>>

\* createChildItem: its addDoc, with the parent and the size it read.
raceCreateChildItem(c, id) ==
  LET parent == c.seen[1][c.parentId]
      nextOrder == Cardinality(SiblingDocs(c.seen[2], parent.listId, c.parentId))
  IN <<addDoc(id, Item(parent.listId, c.parentId, Append(parent.path, c.parentId), nextOrder))>>

\* deleteItemSubtree: its batch, from the root, the descendants and the
\* siblings it read.
raceDeleteItemSubtree(c) ==
  LET root == c.seen[1][c.itemId]
      descSnap == DescDocs(c.seen[2], c.itemId)
      sibs == SortByOrder(c.seen[3],
                SiblingDocs(c.seen[3], root.listId, root.parentId) \ {c.itemId})
      descDeletes == [i \in 1..Cardinality(descSnap) |-> batchDelete(forEach(descSnap)[i])]
  IN descDeletes \o <<batchDelete(c.itemId)>> \o orderWrites(sibs)

\* reparentSubtree: its batch, from the root, the target parent, the target
\* siblings, the descendants and the old siblings it read.
raceReparentSubtree(c) ==
  LET k == IF c.targetParentId = Null THEN 1 ELSE 4
      root == c.seen[1][c.itemId]
      parentPath ==
        IF c.targetParentId # Null
        THEN Append(c.seen[4][c.targetParentId].path, c.targetParentId)
        ELSE <<>>
      targetSibs == reparentTargetSibs(c.seen[k + 1], c.itemId, c.targetListId, c.targetParentId)
      targetIndex == reparentTargetIndex(Len(targetSibs), c.insertIndex)
      descSnap == forEach(DescDocs(c.seen[k + 2], c.itemId))
      newPrefix == Append(parentPath, c.itemId)
      suffix(d) ==
        LET idx == IndexOf(c.seen[k + 2][d].path, c.itemId)
        IN IF idx >= 0 THEN SliceFrom(c.seen[k + 2][d].path, idx + 1) ELSE <<>>
      withInserted ==
        SliceTo(targetSibs, targetIndex) \o <<c.itemId>> \o SliceFrom(targetSibs, targetIndex)
      oldSibs == SortByOrder(c.seen[k + 3],
                   SiblingDocs(c.seen[k + 3], root.listId, root.parentId))
  IN <<batchUpdate(c.itemId, {"listId", "parentId", "path", "order"},
                   Item(c.targetListId, c.targetParentId, parentPath, targetIndex))>>
     \o [i \in 1..Len(descSnap) |->
           batchUpdate(descSnap[i], {"listId", "path"},
                       Item(c.targetListId, Null, newPrefix \o suffix(descSnap[i]), 0))]
     \o orderWrites(withInserted)
     \o orderWrites(oldSibs)

\* deleteList: the deletes of its batch in the items collection.
raceDeleteList(c) ==
  LET itemsSnap == forEach(ListItemDocs(c.seen[1], c.listId))
  IN [i \in 1..Len(itemsSnap) |-> batchDelete(itemsSnap[i])]

\* The writes of a call to the items collection; id is the new document's.
raceWrites(c, id) ==
  IF c.op = "createRootItem" THEN raceCreateRootItem(c, id)
  ELSE IF c.op = "createChildItem" THEN raceCreateChildItem(c, id)
  ELSE IF c.op = "deleteItemSubtree" THEN raceDeleteItemSubtree(c)
  ELSE IF c.op = "reparentSubtree" THEN raceReparentSubtree(c)
  ELSE raceDeleteList(c)

\* A call as it starts: no read made, no document added.
RaceCall(c) == c @@ [seen |-> <<>>, status |-> "running", made |-> Null]

Adds(c) == c.op \in {"createRootItem", "createChildItem"}

\* There is an id left for every document the running calls may add.
RoomForRace ==
  Cardinality(Docs(items))
    + Cardinality({i \in 1..Len(calls) : calls[i].status = "running" /\ Adds(calls[i])})
    < MaxItems

RaceStart(c) ==
  /\ Len(calls) < MaxRaceCalls
  /\ calls' = Append(calls, RaceCall(c))
  /\ UNCHANGED <<items, lists, maxDepth, hooks, app>>

InitRace ==
  /\ items \in RaceStores
  /\ lists = [l \in ListIds |-> List(l - 1)]
  /\ maxDepth \in DepthSettings
  /\ hooks = NoHooks /\ app = NoApp /\ calls = NoCalls

RaceCreateRootItem ==
  \E l \in ListIds :
    RoomForRace /\ RaceStart([op |-> "createRootItem", listId |-> l])

RaceCreateChildItem ==
  \E p \in ItemIds :
    /\ RoomForRace
    /\ RaceStart([op |-> "createChildItem", parentId |-> p, maxDepth |-> maxDepth])

RaceDeleteItemSubtree ==
  \E id \in ItemIds : RaceStart([op |-> "deleteItemSubtree", itemId |-> id])

RaceReparentSubtree ==
  \E id \in ItemIds, l \in ListIds, p \in ItemIds \cup {Null}, i \in RaceInsertIndexes :
    RaceStart([op |-> "reparentSubtree", itemId |-> id, targetListId |-> l,
               targetParentId |-> p, insertIndex |-> i, maxDepth |-> maxDepth])

RaceDeleteList ==
  \E l \in ListIds : RaceStart([op |-> "deleteList", listId |-> l])

\* An await of a read resolves: the call holds what the store shows now, and
\* returns if a guard tells it to.
RaceRead ==
  \E i \in 1..Len(calls) :
    /\ calls[i].status = "running"
    /\ Len(calls[i].seen) < raceReads(calls[i])
    /\ LET read == [calls[i] EXCEPT !.seen = Append(@, items)]
       IN calls' = [calls EXCEPT ![i] =
                      IF raceReturns(read) THEN [read EXCEPT !.status = "returned"] ELSE read]
    /\ UNCHANGED <<items, lists, maxDepth, hooks, app>>

\* The addDoc or the batch.commit() of a call that has made its reads.
RaceCommit ==
  \E i \in 1..Len(calls) :
    /\ calls[i].status = "running"
    /\ Len(calls[i].seen) = raceReads(calls[i])
    /\ \E id \in IF Adds(calls[i]) THEN NewIds(items) ELSE {Null} :
         LET commit == batchCommit(items, raceWrites(calls[i], id))
         IN /\ PathCap(commit.st)
            /\ items' = IF commit.ok THEN commit.st ELSE items
            /\ lists' = IF calls[i].op = "deleteList"
                        THEN deleteListLists(lists, calls[i].listId)
                        ELSE lists
            /\ calls' = [calls EXCEPT ![i] =
                           [@ EXCEPT !.status = IF commit.ok THEN "committed" ELSE "failed",
                                     !.made = id]]
    /\ UNCHANGED <<maxDepth, hooks, app>>

NextRace ==
  \/ RaceCreateRootItem
  \/ RaceCreateChildItem
  \/ RaceDeleteItemSubtree
  \/ RaceReparentSubtree
  \/ RaceDeleteList
  \/ RaceRead
  \/ RaceCommit

SpecRace == InitRace /\ [][NextRace]_vars

\* Two calls that add a task to the same sibling group, both done.
SameGroupAdds(c, d) ==
  /\ c.status = "committed" /\ d.status = "committed"
  /\ \/ c.op = "createRootItem" /\ d.op = "createRootItem" /\ c.listId = d.listId
     \/ c.op = "createChildItem" /\ d.op = "createChildItem" /\ c.parentId = d.parentId

\* C35: when two createRootItem calls for the same list, or two
\* createChildItem calls for the same parent, run at once, however their
\* reads and inserts interleave, the two new tasks have distinct orders and
\* their sibling group is dense.
C35_ConcurrentCreates ==
  \A i, j \in 1..Len(calls) :
    (i < j /\ SameGroupAdds(calls[i], calls[j])) =>
      LET a == calls[i].made
          b == calls[j].made
      IN /\ items[a].order # items[b].order
         /\ DenseGroup(items, items[a].listId, items[a].parentId)

\* The calls of a behaviour are done: each has returned, committed or failed.
RaceDone == calls # <<>> /\ \A i \in 1..Len(calls) : calls[i].status # "running"

\* The task x or an ancestor of x, as the call c read x's path.
SelfOrAncestor(c, x, p) == x = p \/ (c.seen # <<>> /\ Contains(c.seen[1][p].path, x))

\* C36: when createChildItem(P) runs at once with deleteItemSubtree of P or
\* of an ancestor of P, in every interleaving of their reads and writes the
\* final store holds no task whose parentId or path names a task that does
\* not exist.
C36_CreateChildVsDelete ==
  \A i, j \in 1..Len(calls) :
    (/\ RaceDone
     /\ calls[i].op = "createChildItem"
     /\ calls[j].op = "deleteItemSubtree"
     /\ SelfOrAncestor(calls[i], calls[j].itemId, calls[i].parentId)) =>
      \A d \in Docs(items) :
        /\ items[d].parentId # Null => items[d].parentId \in Docs(items)
        /\ \A k \in 1..Len(items[d].path) : items[d].path[k] \in Docs(items)

\* C37: when createChildItem(P) runs at once with reparentSubtree of P or of
\* an ancestor of P, in every interleaving the new child's final path is its
\* parent's final path followed by the parent's id, and its listId is its
\* parent's final listId.
C37_CreateChildVsReparent ==
  \A i, j \in 1..Len(calls) :
    (/\ RaceDone
     /\ calls[i].op = "createChildItem" /\ calls[i].status = "committed"
     /\ calls[j].op = "reparentSubtree"
     /\ SelfOrAncestor(calls[i], calls[j].itemId, calls[i].parentId)) =>
      LET child == items[calls[i].made]
          parent == items[calls[i].parentId]
      IN /\ child.path = Append(parent.path, calls[i].parentId)
         /\ child.listId = parent.listId

\* A call that puts a task into list l: createRootItem into l,
\* createChildItem under a task that it read in l, reparentSubtree to l.
Targets(c, l) ==
  \/ c.op = "createRootItem" /\ c.listId = l
  \/ c.op = "createChildItem" /\ c.seen # <<>> /\ c.seen[1][c.parentId].exists
       /\ c.seen[1][c.parentId].listId = l
  \/ c.op = "reparentSubtree" /\ c.targetListId = l

\* C38: when deleteList(L) runs at once with createRootItem into L,
\* createChildItem under a task of L or reparentSubtree targeting L, in every
\* interleaving of their reads and commits the final store holds no task
\* whose listId is L.
C38_DeleteListVsWrites ==
  \A i, j \in 1..Len(calls) :
    (/\ RaceDone
     /\ calls[i].op = "deleteList"
     /\ Targets(calls[j], calls[i].listId)) =>
      ListItemDocs(items, calls[i].listId) = {}

----
(***************************************************************************)
(* The intents of the page on a settled client: the displayed items are    *)
(* the store's, and each drop or key press runs to the return of the       *)
(* service call it makes.                                                  *)
(***************************************************************************)

\* onDragEnd of a dragged item dropped over another item, from the drop to
\* the return of the call: a reorder among the siblings when the two items
\* name the same parent, else a move to the other item's parent in the
\* dragged item's list.
onDragEndOverItem(st, activeId, overId, md) ==
  LET shown == itemsArray(st)
      activeParent == st[activeId].parentId
      targetParent == st[overId].parentId
      listId == st[activeId].listId
      inActive(x) == x.doc.listId = listId /\ x.doc.parentId = activeParent
      inTarget(x) == x.doc.listId = listId /\ x.doc.parentId = targetParent
      siblings == idsOf(sortEntries(SelectSeq(shown, inActive)))
      targetSiblings == idsOf(sortEntries(SelectSeq(shown, inTarget)))
      oldIndex == IndexOf(siblings, activeId)
      newIndex == IndexOf(siblings, overId)
      insertIndex == IndexOf(targetSiblings, overId)
  IN IF activeParent = targetParent
     THEN IF oldIndex # -1 /\ newIndex # -1 /\ oldIndex # newIndex
          THEN reorderSiblingsResult(st, arrayMove(siblings, oldIndex, newIndex))
          ELSE st
     ELSE reparentOutcome(st, activeId, listId, targetParent,
                          IF insertIndex < 0 THEN Undefined ELSE insertIndex, md)

InitIntents ==
  /\ items = [d \in ItemIds |-> NoItem]
  /\ lists = [l \in ListIds |-> List(l - 1)]
  /\ maxDepth = MAX_DEPTH
  /\ hooks = NoHooks /\ app = NoApp /\ calls = NoCalls

\* addRootItem and addChild, to the return of the create call.
IntentAddRootItem ==
  \E l \in ListDocs(lists), id \in NewIds(items) :
    /\ items' = createRootItemOutcome(items, id, l)
    /\ UNCHANGED <<lists, maxDepth, client>>

IntentAddChild ==
  \E p \in Docs(items), id \in NewIds(items) :
    /\ items' = createChildItemOutcome(items, id, p, maxDepth)
    /\ UNCHANGED <<lists, maxDepth, client>>

\* A drop on the drop zone of a container.
IntentContainerDrop ==
  \E a \in Docs(items), c \in containers(listsArray(lists), itemsArray(items)) :
    /\ items' = reparentOutcome(items, a, c[1], c[2], Undefined, maxDepth)
    /\ PathCap(items')
    /\ UNCHANGED <<lists, maxDepth, client>>

\* A drop on a slot of a container: the one at its start or the one at its
\* end.
IntentSlotDrop ==
  \E a \in Docs(items), c \in containers(listsArray(lists), itemsArray(items)) :
    \E index \in {0, Cardinality(SiblingDocs(items, c[1], c[2]))} :
      /\ items' = reparentOutcome(items, a, c[1], c[2], index, maxDepth)
      /\ PathCap(items')
      /\ UNCHANGED <<lists, maxDepth, client>>

IntentDropOnItem ==
  \E a, o \in Docs(items) :
    /\ items' = onDragEndOverItem(items, a, o, maxDepth)
    /\ PathCap(items')
    /\ UNCHANGED <<lists, maxDepth, client>>

IntentIndent ==
  \E t \in Docs(items) :
    /\ items' = indentOutcome(items, t, maxDepth)
    /\ PathCap(items')
    /\ UNCHANGED <<lists, maxDepth, client>>

IntentOutdent ==
  \E t \in Docs(items) :
    /\ items' = outdentOutcome(items, t, maxDepth)
    /\ PathCap(items')
    /\ UNCHANGED <<lists, maxDepth, client>>

NextIntents ==
  \/ IntentAddRootItem
  \/ IntentAddChild
  \/ IntentContainerDrop
  \/ IntentSlotDrop
  \/ IntentDropOnItem
  \/ IntentIndent
  \/ IntentOutdent

SpecIntents == InitIntents /\ [][NextIntents]_vars

\* C39: in every state reached through the container drop, the slot drop,
\* the drop onto another item, indent and outdent, every task with a parent
\* has its parent's listId; a drop onto an item of another list that has
\* another parent does not leave the moved task in one list with a parent in
\* another.
C39_ParentInSameList ==
  \A d \in Docs(items) :
    (items[d].parentId # Null /\ items[d].parentId \in Docs(items)) =>
      items[d].listId = items[items[d].parentId].listId

====
